---- MODULE Spec2Model ----
(***************************************************************************)
(* A model of the FPL-Prediction repository: the incremental live-event    *)
(* pipeline and its cursor, the retry / HTTP utilities, the dataframe      *)
(* upsert, the heuristic prediction service and the dashboard service,     *)
(* the FBref scraper and its progress file, the cold start, user           *)
(* registration, generate_predictions, clean_and_store, the scraper's      *)
(* file naming, gameweek discovery with fetch_new_events_dataframe,        *)
(* upsert_events, get_best_players over two seasons, ingest_fixtures and   *)
(* the season loop of FBrefScraper.                                        *)
(* Each subsystem has its own specification; the variables of the other    *)
(* subsystems keep their initial values under it.                          *)
(***************************************************************************)
EXTENDS Integers, Sequences, FiniteSets, TLC

\* Gameweek ids the upstream API can list are 1..MaxGW.
MaxGW == 3
\* retry_request is called with retries in 0..MaxRetries and backoff in 1..MaxBackoff.
MaxRetries == 3
MaxBackoff == 2
\* Durations are counted in 1/JitterSteps of a second; random.uniform(0, 1.0) draws
\* one of 0/JitterSteps .. (JitterSteps-1)/JitterSteps.
JitterSteps == 2
\* A dataframe given to upsert_dataframe has at most MaxRows rows of values 0..MaxVal,
\* and the same dataframe is upserted up to MaxUpserts times.
MaxRows == 2
MaxVal == 1
MaxUpserts == 2
\* The table player_predicted_points holds at most MaxPlayers rows for today.
MaxPlayers == 2
\* The fact table read by the dashboard holds at most MaxFacts rows, of gameweeks
\* 1..MaxTrendGW.
MaxFacts == 2
MaxTrendGW == 2
\* The FBref roster page lists the players 1..MaxScPlayers.
MaxScPlayers == 2
\* MaxRequests registration requests are in flight at once.
MaxRequests == 2
\* A player name has at most MaxNameLen characters.
MaxNameLen == 3
MaxPipelineGW == 2
\* Event ids are 1..MaxEventRecs and a batch holds at most MaxEventRecs records.
MaxEventRecs == 2
\* The season has the gameweeks 1..MaxFixGW, one fixture each.
MaxFixGW == 3
\* The FBref scraper is configured with the first MaxFbSeasons seasons.
MaxFbSeasons == 3

VARIABLES
    state_file,    \* state/last_event.txt: [exists, text]
    ndjson,        \* Data/events_raw.ndjson: the event_id of each line, in file order
    events_raw,    \* table events_raw: the set of event_id values it holds
    pc,            \* "idle" between runs, "running" inside the loop of a run
    to_fetch,      \* the gameweeks the running incremental run still has to process
    written,       \* history: gameweeks fetched and written (file and table) by a run
    write_failed,  \* history: gameweeks for which append_record raised
    run_start,     \* history: load_last_event() as read by the most recent run
    rq_caller,     \* "safe_get" or "direct": who called retry_request
    rq_retries,    \* argument retries
    rq_backoff,    \* argument backoff
    rq_jitter,     \* argument jitter
    rq_attempt,    \* the loop variable attempt
    rq_pc,         \* "call" while the loop runs, "done" once the call returned or raised
    rq_trace,      \* history: the HTTP outcome of each invocation of func, in order
    rq_sleeps,     \* history: the argument of each time.sleep, in order
    rq_result,     \* what the call gave its caller: [kind, value]
    ud_df,         \* the dataframe: [columns, rows], rows keyed by the given column names
    ud_pk,         \* argument primary_keys (<<>> for None)
    ud_table,      \* the MySQL table: [exists, key, rows]
    ud_calls,      \* history: number of upsert_dataframe calls made
    ud_error,      \* history: whether some call raised DBWriteError
    ud_first,      \* history: the table as the first call left it
    pp_in,         \* the arguments of a call of calculate_predicted_points
    pp_out,        \* [done, value]: what the call returned, in hundredths of a point
    sq_table,      \* today's rows of player_predicted_points, indexed by player_id
    sq_budget,     \* argument max_budget, in tenths of a million
    sq_formation,  \* argument formation, as the tokens between its "-" separators
    sq_pc,         \* "parse", then the position being filled, then "done" or "raised"
    sq_required,   \* the dict required
    sq_squad,      \* the dict squad: for each position the player_ids selected, in order
    sq_total_cost, \* the local total_cost, in tenths of a million
    d_season,      \* argument season of a dashboard service call
    d_team_id,     \* argument team_id (0 stands for None, equally falsy)
    d_fact,        \* the rows of the fact table the season's schema names
    d_players,     \* the team of each player in the season's player table
    d_pc,          \* "call" before the service function runs, "done" after
    d_fn,          \* history: the service function that was called
    d_arg,         \* history: the player_id a call was given (0 when it takes none)
    d_q,           \* history: how each query ends when the call makes it
    d_result,      \* [kind, label, data]: what the call returned, or that it raised
    sc_state,      \* state/scraper/player_progress.json: the record of each player
    sc_files,      \* the players whose match-log CSV exists in OUTPUT_DIR
    sc_pc,         \* "idle" between runs, "loop" in main's for loop, "player" in scrape_player
    sc_resume,     \* argument resume of the running main()
    sc_queue,      \* players_to_scrape still ahead of the loop
    sc_cur,        \* the player scrape_player is working on (0 outside it)
    sc_skipped,    \* history: players the running main() skipped
    sc_attempted,  \* history: players the running main() gave to scrape_player
    sc_run_state,  \* history: sc_state as the running main() found it
    sc_lost,       \* history: some write of the progress file was swallowed
    cs_exists,     \* whether Data/events_raw.ndjson exists (tracked for the cold start)
    cs_pc,         \* "idle", "fetched" (before write_records), "writing" (in its loop)
    cs_data,       \* the local data: the event_id of each fetched record
    cs_end,        \* the local end
    cs_result,     \* "none", "ok", "interrupted" or the exception the latest run ended with
    cs_upstream,   \* history: whether discovery and fetch of the latest run succeeded
    cs_before,     \* history: the NDJSON file and the cursor as the latest run found them
    cs_cursor_writes,\* history: the calls of save_last_event the latest run completed
    rg_users,      \* table users: its rows [username, email], in insertion order
    rg_data,       \* the UserCreate body of each registration request
    rg_pc,         \* where each request stands in register_user
    rg_result,     \* how each request ended: "none", "created" or the exception raised
    gp_table,      \* table player_predicted_points: its rows, in insertion order
    gp_stats,      \* the row get_player_stats_for_prediction computes for each player
    gp_today,      \* date.today(), as an index into PredictionDates
    gp_min,        \* argument min_minutes of the latest generate_predictions call
    gp_count,      \* what the latest generate_predictions call returned
    gp_tick,       \* history: flips at every generate_predictions call
    gp_fresh,      \* history: the lowest min_minutes of the calls that wrote every row,
                   \* today and since the data last changed (-1 when there is none)
    gp_repeat,     \* history: the latest call was made while gp_fresh was set
    cl_fpl_rows,   \* the (season, team_id) rows aggregated from fpl_fixtures (step 4)
    cl_team_map,   \* fpl_season_teams: the team_name of each (season, team_id), or "None"
    cl_xg_rows,    \* the (season, team_name) rows aggregated from understat_team_metrics
    cl_stats,      \* table clean_team_season_stats
    cl_xg,         \* table clean_team_xg_season
    cl_metrics,    \* table clean_team_season_metrics
    cl_pc,         \* the step clean_and_store is about to make: "fpl", "xg", "merge", "done", "failed"
    sn_name,       \* argument player_name, as the sequence of its characters
    sn_dir,        \* output_dir: the safe_name of each <safe_name>_match_logs.csv in it
    sn_saved,      \* what save_player_data returned: "none" (not called), "None", "raised", "path"
    sn_found,      \* what file_exists returned: "none" (not called), "True", "False"
    fn_to_fetch,   \* the local to_fetch of fetch_new_events_dataframe
    fn_done,       \* how many gameweeks of to_fetch the loop has completed
    fn_pc,         \* "idle" outside a call, "loop" inside the for loop
    fn_result,     \* "none", "None", "dataframe" or the exception the latest call raised
    fn_start,      \* history: the cursor file as the latest call found it
    fn_failed_at,  \* history: the position in to_fetch at which the call failed (0: none)
    fn_fetched,    \* the gameweeks fetch_event_live has returned to some call
    fn_returned,   \* the gameweeks of the dataframes returned to the callers
    ga_events,     \* payload["events"] as bootstrap-static answered it
    ga_result,     \* what get_available_gameweeks() returned: [kind, gameweeks]
    ue_table,      \* table events_raw: its rows [event_id, payload]
    ue_latest,     \* per event_id, the payload of the latest committed upsert ("none" before)
    ue_calls,      \* calls of upsert_events made so far
    ue_skipped,    \* records the latest call skipped as malformed
    ue_result,     \* how the latest call ended
    bp_table,      \* table player_predicted_points: today's rows, with their season
    bp_players,    \* per season, the players get_player_stats_for_prediction returns
    bp_season,     \* the season of the latest call
    bp_best,       \* per season, the player_ids the latest get_best_players returned
    fx_upstream,   \* per gameweek, whether its fixture is finished upstream
    fx_csv,        \* data/fixtures.csv: its rows [event, finished], in file order
    fx_table,      \* table fixtures: per fixture "absent", "unfinished" or "finished"
    fx_pc,         \* "idle" between runs of ingest_fixtures, "loop" inside one
    fx_gw,         \* the gameweek the loop is at
    fb_state,      \* the player's entry of the FBref state file: [last_scraped_season, completed]
    fb_csv,        \* the player's CSV: [exists, seasons] (the seasons whose rows it holds)
    fb_pc,         \* "idle" between runs, "seasons" inside _scrape_player_seasons
    fb_todo,       \* the seasons the loop has still to take
    fb_dfs,        \* season_dfs: the seasons of the frames collected in this run
    fb_all_success,\* all_success of this run
    fb_scraped     \* history: the seasons ever scraped with data for the player

pipeVars == <<state_file, ndjson, events_raw, pc, to_fetch, written, write_failed, run_start>>

retryVars == <<rq_caller, rq_retries, rq_backoff, rq_jitter, rq_attempt, rq_pc,
               rq_trace, rq_sleeps, rq_result>>

upsertVars == <<ud_df, ud_pk, ud_table, ud_calls, ud_error, ud_first>>

predictVars == <<pp_in, pp_out>>

squadVars == <<sq_table, sq_budget, sq_formation, sq_pc, sq_required, sq_squad,
               sq_total_cost>>

dashVars == <<d_season, d_team_id, d_fact, d_players, d_pc, d_fn, d_arg, d_q, d_result>>

scraperVars == <<sc_state, sc_files, sc_pc, sc_resume, sc_queue, sc_cur, sc_skipped,
                 sc_attempted, sc_run_state, sc_lost>>

coldVars == <<cs_exists, cs_pc, cs_data, cs_end, cs_result, cs_upstream, cs_before,
              cs_cursor_writes>>

registerVars == <<rg_users, rg_data, rg_pc, rg_result>>

genVars == <<gp_table, gp_stats, gp_today, gp_min, gp_count, gp_tick, gp_fresh, gp_repeat>>

cleanVars == <<cl_fpl_rows, cl_team_map, cl_xg_rows, cl_stats, cl_xg, cl_metrics, cl_pc>>

storageVars == <<sn_name, sn_dir, sn_saved, sn_found>>

fetchNewVars == <<fn_to_fetch, fn_done, fn_pc, fn_result, fn_start, fn_failed_at, fn_fetched, fn_returned>>

discoveryVars == <<ga_events, ga_result>>

eventsVars == <<ue_table, ue_latest, ue_calls, ue_skipped, ue_result>>

bestVars == <<bp_table, bp_players, bp_season, bp_best>>

fixtureVars == <<fx_upstream, fx_csv, fx_table, fx_pc, fx_gw>>

fbrefVars == <<fb_state, fb_csv, fb_pc, fb_todo, fb_dfs, fb_all_success, fb_scraped>>

vars == <<pipeVars, retryVars, upsertVars, predictVars,
         squadVars, dashVars, scraperVars, coldVars, registerVars, genVars, cleanVars, storageVars, fetchNewVars, discoveryVars, eventsVars, bestVars, fixtureVars, fbrefVars>>

\* What an action of one subsystem leaves alone: the other subsystems.
PipeOnly ==
    UNCHANGED <<retryVars, upsertVars, predictVars, squadVars, dashVars, scraperVars, coldVars, registerVars, genVars, cleanVars, storageVars, fetchNewVars, discoveryVars, eventsVars, bestVars, fixtureVars, fbrefVars>>
RetryOnly ==
    UNCHANGED <<pipeVars, upsertVars, predictVars, squadVars, dashVars, scraperVars, coldVars, registerVars, genVars, cleanVars, storageVars, fetchNewVars, discoveryVars, eventsVars, bestVars, fixtureVars, fbrefVars>>
UpsertOnly ==
    UNCHANGED <<pipeVars, retryVars, predictVars, squadVars, dashVars, scraperVars, coldVars, registerVars, genVars, cleanVars, storageVars, fetchNewVars, discoveryVars, eventsVars, bestVars, fixtureVars, fbrefVars>>
PredictOnly ==
    UNCHANGED <<pipeVars, retryVars, upsertVars, squadVars, dashVars, scraperVars, coldVars, registerVars, genVars, cleanVars, storageVars, fetchNewVars, discoveryVars, eventsVars, bestVars, fixtureVars, fbrefVars>>
SquadOnly ==
    UNCHANGED <<pipeVars, retryVars, upsertVars, predictVars, dashVars, scraperVars, coldVars, registerVars, genVars, cleanVars, storageVars, fetchNewVars, discoveryVars, eventsVars, bestVars, fixtureVars, fbrefVars>>
DashOnly ==
    UNCHANGED <<pipeVars, retryVars, upsertVars, predictVars, squadVars, scraperVars, coldVars, registerVars, genVars, cleanVars, storageVars, fetchNewVars, discoveryVars, eventsVars, bestVars, fixtureVars, fbrefVars>>
ScraperOnly ==
    UNCHANGED <<pipeVars, retryVars, upsertVars, predictVars, squadVars, dashVars, coldVars, registerVars, genVars, cleanVars, storageVars, fetchNewVars, discoveryVars, eventsVars, bestVars, fixtureVars, fbrefVars>>
RegisterOnly ==
    UNCHANGED <<pipeVars, retryVars, upsertVars, predictVars, squadVars, dashVars, scraperVars, coldVars, genVars, cleanVars, storageVars, fetchNewVars, discoveryVars, eventsVars, bestVars, fixtureVars, fbrefVars>>
GenOnly ==
    UNCHANGED <<pipeVars, retryVars, upsertVars, predictVars, squadVars, dashVars, scraperVars, coldVars, registerVars, cleanVars, storageVars, fetchNewVars, discoveryVars, eventsVars, bestVars, fixtureVars, fbrefVars>>
CleanOnly ==
    UNCHANGED <<pipeVars, retryVars, upsertVars, predictVars, squadVars, dashVars, scraperVars, coldVars, registerVars, genVars, storageVars, fetchNewVars, discoveryVars, eventsVars, bestVars, fixtureVars, fbrefVars>>
StorageOnly ==
    UNCHANGED <<pipeVars, retryVars, upsertVars, predictVars, squadVars, dashVars, scraperVars, coldVars, registerVars, genVars, cleanVars, fetchNewVars, discoveryVars, eventsVars, bestVars, fixtureVars, fbrefVars>>
DiscoveryOnly ==
    UNCHANGED <<pipeVars, retryVars, upsertVars, predictVars, squadVars, dashVars, scraperVars, coldVars, registerVars, genVars, cleanVars, storageVars, fetchNewVars, eventsVars, bestVars, fixtureVars, fbrefVars>>
EventsOnly ==
    UNCHANGED <<pipeVars, retryVars, upsertVars, predictVars, squadVars, dashVars, scraperVars, coldVars, registerVars, genVars, cleanVars, storageVars, fetchNewVars, discoveryVars, bestVars, fixtureVars, fbrefVars>>
BestOnly ==
    UNCHANGED <<pipeVars, retryVars, upsertVars, predictVars, squadVars, dashVars, scraperVars, coldVars, registerVars, genVars, cleanVars, storageVars, fetchNewVars, discoveryVars, eventsVars, fixtureVars, fbrefVars>>
FixtureOnly ==
    UNCHANGED <<pipeVars, retryVars, upsertVars, predictVars, squadVars, dashVars, scraperVars, coldVars, registerVars, genVars, cleanVars, storageVars, fetchNewVars, discoveryVars, eventsVars, bestVars, fbrefVars>>
FbrefOnly ==
    UNCHANGED <<pipeVars, retryVars, upsertVars, predictVars, squadVars, dashVars, scraperVars, coldVars, registerVars, genVars, cleanVars, storageVars, fetchNewVars, discoveryVars, eventsVars, bestVars, fixtureVars>>

GameweekIds == 1..MaxGW

SetMax(S) == IF S = {} THEN 0 ELSE CHOOSE m \in S : \A x \in S : x <= m

SeqRange(s) == {s[i] : i \in 1..Len(s)}

(***************************************************************************)
(* Utils/state.py                                                          *)
(***************************************************************************)
load_last_event == IF state_file.exists THEN state_file.text ELSE 0

save_last_event(event_id) == [exists |-> TRUE, text |-> event_id]

(***************************************************************************)
(* Api_calls/get_available_gameweeks.py                                    *)
(***************************************************************************)
\* One entry of payload["events"] of bootstrap-static.
BootstrapEvent == [id : GameweekIds, finished : BOOLEAN, data_checked : BOOLEAN]

\* The payloads the upstream API can answer with: any listing of distinct gameweeks.
Bootstraps ==
    UNION {{ev \in [1..n -> BootstrapEvent] :
               \A i, j \in 1..n : i # j => ev[i].id # ev[j].id} : n \in 0..MaxGW}

\* The payloads of a regular season: every gameweek listed, in ascending id order,
\* the gameweeks that are finished or data-checked being the first ones.
RegularBootstraps ==
    {ev \in Bootstraps :
        /\ Len(ev) = MaxGW
        /\ \A i \in 1..Len(ev) : ev[i].id = i
        /\ \A i, j \in 1..Len(ev) :
              (i < j /\ (ev[j].finished \/ ev[j].data_checked))
                  => (ev[i].finished \/ ev[i].data_checked)}

RECURSIVE get_available_gameweeks(_)
get_available_gameweeks(events) ==
    IF events = <<>> THEN <<>>
    ELSE LET e == Head(events)
             rest == get_available_gameweeks(Tail(events))
         IN IF e.finished \/ e.data_checked THEN <<e.id>> \o rest ELSE rest

AvailableLists == {get_available_gameweeks(ev) : ev \in Bootstraps}

RegularAvailableLists == {get_available_gameweeks(ev) : ev \in RegularBootstraps}

(***************************************************************************)
(* Scripts/incremental_event_update.py                                     *)
(***************************************************************************)
\* load_existing_event_ids returning no id whatever the file holds.
load_existing_event_ids_unread == {}

\* lines 19-33: the event_id of every line of the file, the empty set without a file.
load_existing_event_ids == SeqRange(ndjson)

RECURSIVE FilterSeq(_, _)
FilterSeq(s, keep) ==
    IF s = <<>> THEN <<>>
    ELSE IF Head(s) \in keep THEN <<Head(s)>> \o FilterSeq(Tail(s), keep)
         ELSE FilterSeq(Tail(s), keep)

\* lines 55-64: read the file, discover, read the cursor, build to_fetch.
StartRun(feed) ==
    /\ pc = "idle"
    /\ \E available \in feed :
          LET existing_ids == load_existing_event_ids
              last == load_last_event
              candidates == FilterSeq(available, {e \in GameweekIds : e > last})
              todo == FilterSeq(candidates, GameweekIds \ existing_ids)
          IN /\ run_start' = last
             /\ to_fetch' = todo
             /\ pc' = IF todo = <<>> THEN "idle" ELSE "running"
    /\ UNCHANGED <<state_file, ndjson, events_raw, written, write_failed>>
    /\ PipeOnly

\* line 56 raises GameweekDiscoveryError: the run ends before it read the cursor.
DiscoveryFails ==
    /\ pc = "idle"
    /\ UNCHANGED pipeVars
    /\ PipeOnly

\* line 69 raises APIRequestError: the run ends, nothing was written for gw.
FetchFails ==
    /\ pc = "running"
    /\ pc' = "idle"
    /\ to_fetch' = <<>>
    /\ UNCHANGED <<state_file, ndjson, events_raw, written, write_failed, run_start>>
    /\ PipeOnly

\* lines 38-42 raise: append_record raises WriteFileError before anything was stored.
AppendFails ==
    /\ pc = "running"
    /\ write_failed' = write_failed \cup {Head(to_fetch)}
    /\ pc' = "idle"
    /\ to_fetch' = <<>>
    /\ UNCHANGED <<state_file, ndjson, events_raw, written, run_start>>
    /\ PipeOnly

\* lines 40-42 wrote the line, line 45 (upsert_events) raises: WriteFileError.
UpsertFails ==
    /\ pc = "running"
    /\ ndjson' = Append(ndjson, Head(to_fetch))
    /\ write_failed' = write_failed \cup {Head(to_fetch)}
    /\ pc' = "idle"
    /\ to_fetch' = <<>>
    /\ UNCHANGED <<state_file, events_raw, written, run_start>>
    /\ PipeOnly

\* lines 66-76 for one gameweek, all succeeding; line 78 after the last one.
IterationOK ==
    /\ pc = "running"
    /\ LET gw == Head(to_fetch) IN
          /\ ndjson' = Append(ndjson, gw)
          /\ events_raw' = events_raw \cup {gw}
          /\ written' = written \cup {gw}
          /\ state_file' = save_last_event(gw)
    /\ to_fetch' = Tail(to_fetch)
    /\ pc' = IF Tail(to_fetch) = <<>> THEN "idle" ELSE "running"
    /\ UNCHANGED <<write_failed, run_start>>
    /\ PipeOnly

(***************************************************************************)
(* Utils/http.py and Utils/retry.py                                        *)
(***************************************************************************)
\* What one requests.get can give: a response (status code and body), or a
\* network exception.
HttpOutcomes ==
    [kind : {"response"}, code : {200}, body : {"a", "b"}]
        \cup [kind : {"response"}, code : {404, 429, 500}, body : {""}]
        \cup [kind : {"ConnectionError", "Timeout"}, code : {0}, body : {""}]

\* _raw_get on the outcome of its requests.get: what the call returns or raises.
raw_get(o) ==
    IF o.kind # "response" THEN [kind |-> "raise", value |-> o.kind]
    ELSE IF o.code \in {429, 500, 502, 503, 504}
         THEN [kind |-> "raise", value |-> "FPLServerError"]
    ELSE IF 400 <= o.code /\ o.code < 500
         THEN [kind |-> "raise", value |-> "FPLClientError"]
    ELSE [kind |-> "return", value |-> o.body]

RECURSIVE Pow(_, _)
Pow(b, n) == IF n = 0 THEN 1 ELSE b * Pow(b, n - 1)

\* A backoff that starts at backoff ** 0.
sleep_time_from_zero(backoff, attempt, jitter, draw) ==
    Pow(backoff, attempt - 1) * JitterSteps + (IF jitter THEN draw ELSE 0)

\* retry.py lines 43-47: backoff ** attempt, plus the jitter drawn when jitter is set.
sleep_time(backoff, attempt, jitter, draw) ==
    Pow(backoff, attempt) * JitterSteps + (IF jitter THEN draw ELSE 0)

\* An except clause that catches nothing func raises.
RETRYABLE_EXCEPTIONS_empty(exc) == FALSE

\* RETRYABLE_EXCEPTIONS ends with Exception: every exception func raises is caught.
RETRYABLE_EXCEPTIONS(exc) == TRUE

\* safe_get lines 64-68: the two requests exceptions become FPLNetworkError.
safe_get_raise(exc) ==
    IF exc \in {"ConnectionError", "Timeout"} THEN "FPLNetworkError" ELSE exc

\* One iteration of the loop of retry_request (lines 32-51), func being _raw_get.
RetryAttempt ==
    /\ rq_pc = "call"
    /\ rq_attempt <= rq_retries
    /\ \E o \in HttpOutcomes, draw \in 0..(JitterSteps - 1) :
          LET r == raw_get(o) IN
          /\ rq_trace' = Append(rq_trace, o)
          /\ IF r.kind = "return"
             THEN /\ rq_result' = r
                  /\ rq_pc' = "done"
                  /\ UNCHANGED <<rq_attempt, rq_sleeps>>
             ELSE IF ~RETRYABLE_EXCEPTIONS(r.value) \/ rq_attempt = rq_retries
             THEN /\ rq_result' = [kind |-> "raise",
                                   value |-> IF rq_caller = "safe_get"
                                             THEN safe_get_raise(r.value) ELSE r.value]
                  /\ rq_pc' = "done"
                  /\ UNCHANGED <<rq_attempt, rq_sleeps>>
             ELSE /\ rq_sleeps' = Append(rq_sleeps,
                                         sleep_time(rq_backoff, rq_attempt, rq_jitter, draw))
                  /\ rq_attempt' = rq_attempt + 1
                  /\ UNCHANGED <<rq_pc, rq_result>>
    /\ UNCHANGED <<rq_caller, rq_retries, rq_backoff, rq_jitter>>
    /\ RetryOnly

\* range(1, retries + 1) is empty: the function falls off its end and returns None.
RetryNoAttempt ==
    /\ rq_pc = "call"
    /\ rq_attempt > rq_retries
    /\ rq_result' = [kind |-> "return", value |-> "None"]
    /\ rq_pc' = "done"
    /\ UNCHANGED <<rq_caller, rq_retries, rq_backoff, rq_jitter, rq_attempt,
                   rq_trace, rq_sleeps>>
    /\ RetryOnly

\* A call of safe_get (jitter=True) or of retry_request itself, about to start.
RetryCalls ==
    /\ rq_caller \in {"safe_get", "direct"}
    /\ rq_retries \in 0..MaxRetries
    /\ rq_backoff \in 1..MaxBackoff
    /\ rq_jitter \in IF rq_caller = "safe_get" THEN {TRUE} ELSE BOOLEAN
    /\ rq_attempt = 1
    /\ rq_pc = "call"
    /\ rq_trace = <<>>
    /\ rq_sleeps = <<>>
    /\ rq_result = [kind |-> "none", value |-> "None"]

RetryIdle ==
    /\ rq_caller = "safe_get"
    /\ rq_retries = 0
    /\ rq_backoff = 1
    /\ rq_jitter = TRUE
    /\ rq_attempt = 1
    /\ rq_pc = "done"
    /\ rq_trace = <<>>
    /\ rq_sleeps = <<>>
    /\ rq_result = [kind |-> "none", value |-> "None"]

(***************************************************************************)
(* Utils/db.py: upsert_dataframe                                           *)
(***************************************************************************)
ColumnNames == {"id", "ID", "val"}

\* line 214: c.replace(" ", "_").lower()
clean_column(c) == IF c = "ID" THEN "id" ELSE c

Values == 0..MaxVal

\* The dataframes of the model: one or two columns, up to MaxRows rows.
ColumnLists == {<<"id">>, <<"ID">>, <<"id", "val">>}

Dataframes ==
    UNION {UNION {[columns : {cols}, rows : [1..n -> [SeqRange(cols) -> Values]]]
                     : n \in 0..MaxRows} : cols \in ColumnLists}

\* primary_keys: None, or a list naming (MySQL compares names without case) columns
\* of the dataframe.
KeyLists(df) ==
    {<<>>} \cup {pk \in {<<"id">>, <<"ID">>} :
                    \A i \in 1..Len(pk) :
                        clean_column(pk[i]) \in {clean_column(c) : c \in SeqRange(df.columns)}}

\* lines 214 and 249: the records, keyed by the cleaned column names.
clean_row(df, row) ==
    [c \in {clean_column(x) : x \in SeqRange(df.columns)} |->
        row[CHOOSE x \in SeqRange(df.columns) : clean_column(x) = c]]

\* lines 228-241: the columns named in ON DUPLICATE KEY UPDATE; none means no clause.
update_columns(df, primary_keys) ==
    IF primary_keys = <<>> THEN {}
    ELSE {clean_column(c) : c \in SeqRange(df.columns)} \ SeqRange(primary_keys)

\* create_table_from_df, CREATE TABLE IF NOT EXISTS: an existing table is kept.
create_table_from_df(table, df, primary_keys) ==
    IF table.exists THEN table
    ELSE [exists |-> TRUE,
          key |-> {clean_column(k) : k \in SeqRange(primary_keys)},
          rows |-> <<>>]

SameKey(key, r1, r2) == key # {} /\ \A k \in key : r1[k] = r2[k]

\* One row of INSERT ... [ON DUPLICATE KEY UPDATE ...] on the rows of a table:
\* [ok, rows].
InsertRow(key, rows, row, updates) ==
    IF \E i \in 1..Len(rows) : SameKey(key, rows[i], row)
    THEN IF updates = {}
         THEN [ok |-> FALSE, rows |-> rows]
         ELSE [ok |-> TRUE,
               rows |-> [i \in 1..Len(rows) |->
                           IF SameKey(key, rows[i], row)
                           THEN [c \in DOMAIN rows[i] |->
                                    IF c \in updates THEN row[c] ELSE rows[i][c]]
                           ELSE rows[i]]]
    ELSE [ok |-> TRUE, rows |-> Append(rows, row)]

\* lines 252-258: cur.executemany on one batch, then commit; a MySQLError leaves
\* the batch uncommitted.
RECURSIVE executemany(_, _, _, _)
executemany(key, rows, batch, updates) ==
    IF batch = <<>> THEN [ok |-> TRUE, rows |-> rows]
    ELSE LET one == InsertRow(key, rows, Head(batch), updates)
         IN IF one.ok THEN executemany(key, one.rows, Tail(batch), updates)
            ELSE one

\* upsert_dataframe(df, table_name, primary_keys), lines 204-264.
UpsertDataframe ==
    /\ ud_calls < MaxUpserts
    /\ ud_calls' = ud_calls + 1
    /\ IF ud_df.rows = <<>>
       THEN UNCHANGED <<ud_table, ud_error>>
       ELSE LET created == create_table_from_df(ud_table, ud_df, ud_pk)
                records == [i \in 1..Len(ud_df.rows) |-> clean_row(ud_df, ud_df.rows[i])]
                done == executemany(created.key, created.rows, records,
                                    update_columns(ud_df, ud_pk))
            IN /\ ud_table' = IF done.ok THEN [created EXCEPT !.rows = done.rows]
                              ELSE created
               /\ ud_error' = (ud_error \/ ~done.ok)
    /\ ud_first' = IF ud_calls = 0 THEN ud_table' ELSE ud_first
    /\ UNCHANGED <<ud_df, ud_pk>>
    /\ UpsertOnly

NoTable == [exists |-> FALSE, key |-> {}, rows |-> <<>>]

\* Any dataframe and key list, an empty database.
UpsertCalls ==
    /\ ud_df \in Dataframes
    /\ ud_pk \in KeyLists(ud_df)
    /\ ud_table = NoTable
    /\ ud_calls = 0
    /\ ud_error = FALSE
    /\ ud_first = NoTable

UpsertIdle ==
    /\ ud_df = [columns |-> <<"id">>, rows |-> <<>>]
    /\ ud_pk = <<>>
    /\ ud_table = NoTable
    /\ ud_calls = MaxUpserts
    /\ ud_error = FALSE
    /\ ud_first = NoTable

UpsertNext == UpsertDataframe

(***************************************************************************)
(* app/api/prediction/service.py: calculate_predicted_points               *)
(* Points and form are counted in hundredths (2.0 is 200, 15.0 is 1500).   *)
(***************************************************************************)
Max(a, b) == IF a >= b THEN a ELSE b
Min(a, b) == IF a <= b THEN a ELSE b

\* The nearest integer to n / d (d > 0): round(x, 2) on a value in hundredths.
RoundDiv(n, d) == (2 * n + d) \div (2 * d)

\* The nearest integer to (m / 100) * (n / d), computed without large products.
ScaleRound(m, n, d) ==
    LET q == n \div d
        r == n % d
        a == (m * q) \div 100
        b == (m * q) % 100
    IN a + RoundDiv(b * d + m * r, 100 * d)

\* lines 93-98: the position multiplier, in hundredths.
position_multiplier(position) ==
    CASE position = "GKP" -> 90
      [] position = "DEF" -> 95
      [] position = "MID" -> 100
      [] position = "FWD" -> 105
      [] OTHER -> 100

\* A final clamp that keeps only the lower bound.
bounded_below_only(predicted) == Max(200, predicted)

\* line 109: max(2.0, min(predicted, 15.0))
bounded(predicted) == Max(200, Min(predicted, 1500))

\* lines 82-109.  With form in hundredths, the weighted sum of lines 101-106, in
\* hundredths, is weighted / (10 * minutes * games_played).
calculate_predicted_points(total_points, minutes, form, goals, assists, position, games_played) ==
    IF games_played = 0 \/ minutes < 90
    THEN Max(form, 200)
    ELSE LET weighted == 4 * form * minutes * games_played
                         + 300 * 90 * total_points * games_played
                         + 200 * total_points * minutes
                         + (50 * goals + 30 * assists) * minutes * games_played
             predicted == ScaleRound(position_multiplier(position), weighted,
                                     10 * minutes * games_played)
         IN bounded(predicted)

PredictionInputs ==
    [total_points : {-5, 0, 60, 250},
     minutes : {0, 45, 90, 900},
     form : {-100, 0, 150, 1500, 1650},
     goals : {0, 25},
     assists : {0, 12},
     position : {"GKP", "DEF", "MID", "FWD", "UNK"},
     games_played : {0, 1, 10}]

CalculatePredictedPoints ==
    /\ ~pp_out.done
    /\ pp_out' = [done |-> TRUE,
                  value |-> calculate_predicted_points(
                                pp_in.total_points, pp_in.minutes, pp_in.form,
                                pp_in.goals, pp_in.assists, pp_in.position,
                                pp_in.games_played)]
    /\ UNCHANGED pp_in
    /\ PredictOnly

PredictCalls ==
    /\ pp_in \in PredictionInputs
    /\ pp_out = [done |-> FALSE, value |-> 0]

PredictIdle ==
    /\ pp_in = [total_points |-> 0, minutes |-> 0, form |-> 0, goals |-> 0,
                assists |-> 0, position |-> "MID", games_played |-> 0]
    /\ pp_out = [done |-> TRUE, value |-> 200]

PredictNext == CalculatePredictedPoints

(***************************************************************************)
(* app/api/prediction/service.py: get_budget_optimized_squad               *)
(* Money is counted in tenths of a million (100.0 is 1000).                *)
(***************************************************************************)
Positions == <<"GKP", "DEF", "MID", "FWD">>

\* A row of player_predicted_points for today.  Rows that tie on
\* points_per_million come back in any order.
PlayerRows == [position : SeqRange(Positions), now_cost : {400, 700},
               points_per_million : {1, 2}]

PredictionTables == UNION {[1..n -> PlayerRows] : n \in 0..MaxPlayers}

\* formation.split("-"): the tokens of the formation string.
FormationTokens == {"0", "1", "2", "3", "4", "x"}

Formations == {<<"3", "4", "3">>, <<"2", "1", "1">>, <<"0", "1", "2">>,
               <<"1", "1">>, <<"1", "x", "1">>}

IsNumeric(tok) == tok \in {"0", "1", "2", "3", "4"}

\* int(tok) for a numeric token.
int(tok) ==
    CASE tok = "0" -> 0
      [] tok = "1" -> 1
      [] tok = "2" -> 2
      [] tok = "3" -> 3
      [] tok = "4" -> 4

Budgets == {-100, 500, 1000}

\* lines 423-425: a formation that does not have three parts becomes 3-4-3.
formation_parts(formation) ==
    IF Len(formation) # 3 THEN <<"3", "4", "3">> ELSE formation

\* lines 427-432
required_of(parts) ==
    [p \in SeqRange(Positions) |->
        CASE p = "GKP" -> 1
          [] p = "DEF" -> int(parts[1])
          [] p = "MID" -> int(parts[2])
          [] p = "FWD" -> int(parts[3])]

\* lines 423-432: parse the formation; int() raises ValueError on a non-numeric part.
ParseFormation ==
    /\ sq_pc = "parse"
    /\ LET parts == formation_parts(sq_formation)
       IN IF \A i \in 1..3 : IsNumeric(parts[i])
          THEN /\ sq_required' = required_of(parts)
               /\ sq_pc' = "GKP"
          ELSE /\ sq_pc' = "raised"
               /\ UNCHANGED sq_required
    /\ UNCHANGED <<sq_table, sq_budget, sq_formation, sq_squad, sq_total_cost>>
    /\ SquadOnly

\* The WHERE clause of lines 445-447: now_cost <= (remaining / max(count, 1)) * 1.5.
Matches(position, count, remaining) ==
    {id \in DOMAIN sq_table :
        /\ sq_table[id].position = position
        /\ 2 * Max(count, 1) * sq_table[id].now_cost <= 3 * remaining}

\* ORDER BY points_per_million DESC (line 448) and LIMIT count * 3 (line 449).
QueryResults(position, count, remaining) ==
    LET ids == Matches(position, count, remaining)
        n == Cardinality(ids)
        ordered == {r \in [1..n -> ids] :
                       /\ \A i, j \in 1..n : i # j => r[i] # r[j]
                       /\ \A i \in 1..n : \A j \in (i + 1)..n :
                              sq_table[r[i]].points_per_million
                                  >= sq_table[r[j]].points_per_million}
    IN {SubSeq(r, 1, Min(n, 3 * count)) : r \in ordered}

\* A budget test that accepts every player.
fits_always(total_cost, cost, max_budget) == TRUE

\* line 463: if total_cost + cost <= max_budget
fits(total_cost, cost, max_budget) == total_cost + cost <= max_budget

\* lines 458-474: the loop over the rows of one position, from row i on, having
\* selected the player_ids in picked at a running cost of total_cost.
RECURSIVE select(_, _, _, _, _)
select(results, i, count, picked, total_cost) ==
    IF i > Len(results) \/ Len(picked) >= count
    THEN [picked |-> picked, total_cost |-> total_cost]
    ELSE LET cost == sq_table[results[i]].now_cost
         IN IF fits(total_cost, cost, sq_budget)
            THEN select(results, i + 1, count, Append(picked, results[i]),
                        total_cost + cost)
            ELSE select(results, i + 1, count, picked, total_cost)

\* The position the loop of line 440 turns to after p.
next_position(p) ==
    CASE p = "GKP" -> "DEF"
      [] p = "DEF" -> "MID"
      [] p = "MID" -> "FWD"
      [] p = "FWD" -> "done"

\* lines 440-474: one iteration of the loop over required, its query answered.
SelectPosition ==
    /\ sq_pc \in SeqRange(Positions)
    /\ LET count == sq_required[sq_pc]
           remaining_budget == sq_budget - sq_total_cost
       IN \E results \in QueryResults(sq_pc, count, remaining_budget) :
              LET chosen == select(results, 1, count, <<>>, sq_total_cost)
              IN /\ sq_squad' = [sq_squad EXCEPT ![sq_pc] = chosen.picked]
                 /\ sq_total_cost' = chosen.total_cost
    /\ sq_pc' = next_position(sq_pc)
    /\ UNCHANGED <<sq_table, sq_budget, sq_formation, sq_required>>
    /\ SquadOnly

\* lines 476-477: the query raises; the position is logged and left empty.
QueryFails ==
    /\ sq_pc \in SeqRange(Positions)
    /\ sq_pc' = next_position(sq_pc)
    /\ UNCHANGED <<sq_table, sq_budget, sq_formation, sq_required, sq_squad,
                   sq_total_cost>>
    /\ SquadOnly

EmptySquad == [p \in SeqRange(Positions) |-> <<>>]

\* lines 434-437: the locals at the start of a call.
SquadCalls ==
    /\ sq_table \in PredictionTables
    /\ sq_budget \in Budgets
    /\ sq_formation \in Formations
    /\ sq_pc = "parse"
    /\ sq_required = required_of(<<"3", "4", "3">>)
    /\ sq_squad = EmptySquad
    /\ sq_total_cost = 0

SquadIdle ==
    /\ sq_table = <<>>
    /\ sq_budget = 1000
    /\ sq_formation = <<"3", "4", "3">>
    /\ sq_pc = "done"
    /\ sq_required = required_of(<<"3", "4", "3">>)
    /\ sq_squad = EmptySquad
    /\ sq_total_cost = 0

SquadNext ==
    \/ ParseFormation
    \/ SelectPosition
    \/ QueryFails

(***************************************************************************)
(* app/api/dashboard/season_config.py and app/api/dashboard/service.py     *)
(***************************************************************************)
CURRENT_SEASON == "2024-25"

SEASONS_WITH_TEAMS == {"2019-20", "2020-21", "2021-22", "2022-23", "2023-24", "2024-25"}

UNDERSTAT_SEASONS == 2016..2024

\* The seasons a call may name.
Seasons == {"2024-25", "2023-24", "2018-19", "2015-16"}

\* int(season.split("-")[0])
understat_year(season) ==
    CASE season = "2024-25" -> 2024
      [] season = "2023-24" -> 2023
      [] season = "2018-19" -> 2018
      [] season = "2015-16" -> 2015

get_season_schema(season) ==
    IF season # CURRENT_SEASON
    THEN [name |-> season,
          is_historical |-> TRUE,
          table_fact |-> "fpl_player_gameweeks",
          supports_teams |-> season \in SEASONS_WITH_TEAMS,
          supports_understat |-> understat_year(season) \in UNDERSTAT_SEASONS,
          supports_standings |-> season \in SEASONS_WITH_TEAMS]
    ELSE [name |-> season,
          is_historical |-> FALSE,
          table_fact |-> "fact_player_gameweeks",
          supports_teams |-> TRUE,
          supports_understat |-> TRUE,
          supports_standings |-> TRUE]

\* _get_max_gameweek falls back to 38 gameweeks.
DefaultMaxGameweek == 38

PlayerIds == {1, 2}
TeamIds == {1, 2}

\* Rows of fpl_player_gameweeks carry their season; fact_player_gameweeks has no
\* season column and the field is not read for it.
FactRows == [season : {"2023-24", "2018-19"}, gameweek : 1..MaxTrendGW,
             player_id : PlayerIds, total_points : {2}]

\* The player table of the season: player 1 plays for team 1, player 2 for either.
PlayerTeams == {t \in [PlayerIds -> TeamIds] : t[1] = 1}

FactTables == {t \in SUBSET FactRows : Cardinality(t) <= MaxFacts}

\* How a query can end.  "bad" rows are rows on which the conversion that follows
\* the query raises (a NULL where int() or the response model needs a value).
OkFail == {"ok", "fail"}
QueryOutcomes == {"rows", "empty", "bad", "fail"}

\* A response: its name field (team_name, player_name; "" when it has none) and its
\* list.  An exception that leaves the function.
Returned(label, data) == [kind |-> "returned", label |-> label, data |-> data]
Raised(exc) == [kind |-> "raised", label |-> exc, data |-> <<>>]

\* build_season_where / build_season_filter: the rows a query over the fact table
\* sees.
season_rows(schema) ==
    IF schema.is_historical THEN {r \in d_fact : r.season = schema.name} ELSE d_fact

\* service.py lines 82-98: the ids of the players of a team; [] when the query fails.
resolve_team_player_ids(schema, team_id, outcome) ==
    IF outcome = "fail" THEN {}
    ELSE {pid \in PlayerIds : d_players[pid] = team_id}

\* service.py lines 101-109: MAX(gameweek) of the season; MAX of no rows is NULL,
\* and NULL, 0 or a failed query give 38.
get_max_gameweek(schema, outcome) ==
    IF outcome = "fail" THEN DefaultMaxGameweek
    ELSE LET max_gw == SetMax({r.gameweek : r \in season_rows(schema)})
         IN IF max_gw = 0 THEN DefaultMaxGameweek ELSE max_gw

RECURSIVE SumPoints(_)
SumPoints(rows) ==
    IF rows = {} THEN 0
    ELSE LET r == CHOOSE x \in rows : TRUE
         IN r.total_points + SumPoints(rows \ {r})

\* A recursive CTE that stops one gameweek early.
gw_axis_short(max_gw) == [i \in 1..(max_gw - 1) |-> i]

\* lines 246-250: WITH RECURSIVE gw_axis: 1, then gw + 1 while gw < max_gw.
gw_axis(max_gw) == [i \in 1..Max(max_gw, 1) |-> i]

\* lines 245-273: the trends query; facts is the set of rows its WHERE clause keeps.
trends_query(facts, max_gw) ==
    LET ax == gw_axis(max_gw)
    IN [i \in 1..Len(ax) |->
           [gameweek |-> ax[i],
            total_points |-> SumPoints({r \in facts : r.gameweek = ax[i]})]]

\* lines 229-279
get_gameweek_trends(team_id, season, q) ==
    LET schema == get_season_schema(season)
        max_gw == get_max_gameweek(schema, q.max_gw)
        player_ids == resolve_team_player_ids(schema, team_id, q.pids)
        facts == IF team_id # 0
                 THEN {r \in season_rows(schema) : r.player_id \in player_ids}
                 ELSE season_rows(schema)
    IN IF team_id # 0 /\ player_ids = {} THEN Returned("", <<>>)
       ELSE IF q.main = "fail" THEN Returned("", <<>>)
       ELSE Returned("", trends_query(facts, max_gw))

\* A guard that lets every season through.
standings_never_unsupported(schema) == FALSE

\* line 451: if not schema.supports_standings
standings_unsupported(schema) == ~schema.supports_standings

\* lines 448-558: the FPL table query, the Understat query inside its own try, and
\* the merge; every exception ends in the empty response of line 558.
get_league_standings(season, q) ==
    LET schema == get_season_schema(season)
    IN IF standings_unsupported(schema) THEN Returned("", <<>>)
       ELSE IF q.main \in {"fail", "bad", "empty"} THEN Returned("", <<>>)
       ELSE Returned("", <<"StandingEntry">>)

Unused == "unused"

Queries(max_gw, pids, main, second, understat) ==
    [max_gw |-> max_gw, pids |-> pids, main |-> main, second |-> second,
     understat |-> understat]

\* The call of fn ends: its queries ended as q and it gave result.
Ends(fn, arg, q, result) ==
    /\ d_pc' = "done"
    /\ d_fn' = fn
    /\ d_arg' = arg
    /\ d_q' = q
    /\ d_result' = result
    /\ UNCHANGED <<d_season, d_team_id, d_fact, d_players>>

GetGameweekTrends ==
    /\ d_pc = "call"
    /\ \E m \in OkFail, r \in OkFail, t \in {"rows", "fail"} :
           LET q == Queries(m, IF d_team_id # 0 THEN r ELSE Unused, t, Unused, Unused)
           IN Ends("get_gameweek_trends", 0, q,
                   get_gameweek_trends(d_team_id, d_season, q))
    /\ DashOnly

GetLeagueStandings ==
    /\ d_pc = "call"
    /\ \E t \in QueryOutcomes, u \in OkFail :
           LET q == Queries(Unused, Unused, t, Unused,
                            IF get_season_schema(d_season).supports_standings
                                   /\ t # "fail"
                            THEN u ELSE Unused)
           IN Ends("get_league_standings", 0, q, get_league_standings(d_season, q))
    /\ DashOnly

\* schemas.py lines 10-19 with service.py lines 204 and 226: SummaryStats is a
\* pydantic BaseModel, whose constructor takes keyword arguments only.
SummaryStats_positional == Raised("TypeError")

\* lines 224-226: the except handler of get_summary_stats.
summary_handler == SummaryStats_positional

\* lines 179-226
get_summary_stats(team_id, season, q) ==
    LET schema == get_season_schema(season)
        player_ids == resolve_team_player_ids(schema, team_id, q.pids)
        facts == IF team_id # 0
                 THEN {r \in season_rows(schema) : r.player_id \in player_ids}
                 ELSE season_rows(schema)
        team_players == IF team_id # 0
                        THEN {pid \in PlayerIds : d_players[pid] = team_id}
                        ELSE PlayerIds
        total_players == IF q.main = "empty" THEN 0 ELSE Cardinality(team_players)
        total_points == IF q.second = "empty" THEN 0 ELSE SumPoints(facts)
    IN IF q.main = "fail" THEN summary_handler
       ELSE IF team_id # 0 /\ player_ids = {} THEN summary_handler
       ELSE IF q.second = "fail" THEN summary_handler
       ELSE Returned("", <<[total_players |-> total_players,
                            total_points |-> total_points,
                            total_gameweeks |-> get_max_gameweek(schema, q.max_gw)]>>)

\* lines 282-318
get_top_players(season, q) ==
    IF q.main = "rows" THEN Returned("", <<"TopPlayer">>) ELSE Returned("", <<>>)

\* lines 321-445: the team name query (when the season has teams), the squad query,
\* the Understat fetch, which catches its own exceptions, and the merge.
get_team_squad(team_id, season, q) ==
    LET schema == get_season_schema(season)
        team_name == IF schema.supports_teams /\ q.second = "rows"
                     THEN "name" ELSE "Unknown"
    IN IF schema.supports_teams /\ q.second = "fail" THEN Returned("Error", <<>>)
       ELSE IF q.main \in {"fail", "bad"} THEN Returned("Error", <<>>)
       ELSE IF q.main = "empty" THEN Returned(team_name, <<>>)
       ELSE Returned(team_name, <<"SquadMember">>)

\* lines 561-594
get_player_trends(player_id, season, q) ==
    LET schema == get_season_schema(season)
        max_gw == get_max_gameweek(schema, q.max_gw)
        p_name == IF q.second = "rows" THEN "name" ELSE "Unknown"
        facts == {r \in season_rows(schema) : r.player_id = player_id}
    IN IF q.second = "fail" \/ q.main \in {"fail", "bad"} THEN Returned("Error", <<>>)
       ELSE Returned(p_name, trends_query(facts, max_gw))

\* lines 597-620
get_distributions(season, q) ==
    IF q.main = "rows" THEN Returned("", <<"PositionDistribution">>)
    ELSE Returned("", <<>>)

\* lines 623-717
get_global_players(season, q) ==
    IF q.main = "rows" THEN Returned("", <<"TopPlayer">>) ELSE Returned("", <<>>)

\* lines 720-744
get_available_filters(q) ==
    IF q.main = "fail" \/ q.second = "fail" THEN Returned(CURRENT_SEASON, <<>>)
    ELSE Returned(CURRENT_SEASON, [i \in 1..DefaultMaxGameweek |-> i])

RowsEmptyFail == {"rows", "empty", "fail"}

GetSummaryStats ==
    /\ d_pc = "call"
    /\ \E m \in OkFail, r \in OkFail, p \in RowsEmptyFail, f \in RowsEmptyFail :
           LET q == Queries(m, IF d_team_id # 0 THEN r ELSE Unused, p, f, Unused)
           IN Ends("get_summary_stats", 0, q, get_summary_stats(d_team_id, d_season, q))
    /\ DashOnly

GetTopPlayers ==
    /\ d_pc = "call"
    /\ \E t \in QueryOutcomes :
           LET q == Queries(Unused, Unused, t, Unused, Unused)
           IN Ends("get_top_players", 0, q, get_top_players(d_season, q))
    /\ DashOnly

GetTeamSquad ==
    /\ d_pc = "call"
    /\ d_team_id # 0
    /\ \E n \in RowsEmptyFail, t \in QueryOutcomes, u \in OkFail :
           LET q == Queries(Unused, Unused, t, n, u)
           IN Ends("get_team_squad", 0, q, get_team_squad(d_team_id, d_season, q))
    /\ DashOnly

GetPlayerTrends ==
    /\ d_pc = "call"
    /\ \E player_id \in PlayerIds, m \in OkFail, n \in RowsEmptyFail,
          t \in {"rows", "bad", "fail"} :
           LET q == Queries(m, Unused, t, n, Unused)
           IN Ends("get_player_trends", player_id, q,
                   get_player_trends(player_id, d_season, q))
    /\ DashOnly

GetDistributions ==
    /\ d_pc = "call"
    /\ \E t \in QueryOutcomes :
           LET q == Queries(Unused, Unused, t, Unused, Unused)
           IN Ends("get_distributions", 0, q, get_distributions(d_season, q))
    /\ DashOnly

GetGlobalPlayers ==
    /\ d_pc = "call"
    /\ \E t \in QueryOutcomes, u \in OkFail :
           LET q == Queries(Unused, Unused, t, Unused, u)
           IN Ends("get_global_players", 0, q, get_global_players(d_season, q))
    /\ DashOnly

GetAvailableFilters ==
    /\ d_pc = "call"
    /\ \E t \in RowsEmptyFail, n \in RowsEmptyFail :
           LET q == Queries(Unused, Unused, t, n, Unused)
           IN Ends("get_available_filters", 0, q, get_available_filters(q))
    /\ DashOnly

DashCalls ==
    /\ d_season \in Seasons
    /\ d_team_id \in {0} \cup TeamIds
    /\ d_fact \in FactTables
    /\ d_players \in PlayerTeams
    /\ d_pc = "call"
    /\ d_fn = ""
    /\ d_arg = 0
    /\ d_q = Queries(Unused, Unused, Unused, Unused, Unused)
    /\ d_result = Returned("", <<>>)

DashIdle ==
    /\ d_season = CURRENT_SEASON
    /\ d_team_id = 0
    /\ d_fact = {}
    /\ d_players = [pid \in PlayerIds |-> 1]
    /\ d_pc = "done"
    /\ d_fn = ""
    /\ d_arg = 0
    /\ d_q = Queries(Unused, Unused, Unused, Unused, Unused)
    /\ d_result = Returned("", <<>>)

DashNext ==
    \/ GetSummaryStats
    \/ GetGameweekTrends
    \/ GetTopPlayers
    \/ GetTeamSquad
    \/ GetLeagueStandings
    \/ GetPlayerTrends
    \/ GetDistributions
    \/ GetGlobalPlayers
    \/ GetAvailableFilters

PipeInit ==
    /\ state_file = [exists |-> FALSE, text |-> 0]
    /\ ndjson = <<>>
    /\ events_raw = {}
    /\ pc = "idle"
    /\ to_fetch = <<>>
    /\ written = {}
    /\ write_failed = {}
    /\ run_start = 0

IncrementalNext(feed) ==
    \/ StartRun(feed)
    \/ DiscoveryFails
    \/ FetchFails
    \/ AppendFails
    \/ UpsertFails
    \/ IterationOK

RetryNext ==
    \/ RetryAttempt
    \/ RetryNoAttempt

(***************************************************************************)
(* scraping/config.py, Utils/scraper_state.py                              *)
(***************************************************************************)
SEASONS == <<"2015-2016", "2016-2017", "2017-2018", "2018-2019", "2019-2020", "2020-2021", "2021-2022", "2022-2023", "2023-2024", "2024-2025", "2025-2026">>

ScPlayers == 1..MaxScPlayers

\* A player_id the progress file has no entry for.
NoEntry == [status |-> "absent", last_scraped_season |-> "None", completed_seasons |-> <<>>, failure_reason |-> FALSE]

\* load_player_state(): the dict of the file, {} when the file is missing.
load_player_state == sc_state

\* save_player_state(state): json.dump inside a try that swallows every exception;
\* ok tells whether the write went through.
save_player_state(state, ok) == IF ok THEN state ELSE sc_state

\* update_player_progress, lines 86-104, without the assignment of line 102.
update_player_progress_keeps_status(player_id, season, status) ==
    LET state == load_player_state
        entry == IF state[player_id].status = "absent"
                 THEN [NoEntry EXCEPT !.status = "pending"]
                 ELSE state[player_id]
        seasoned == IF season # "None"
                    THEN [entry EXCEPT !.last_scraped_season = season, !.completed_seasons = IF season \in SeqRange(@) THEN @ ELSE Append(@, season)]
                    ELSE entry
    IN [state EXCEPT ![player_id] = seasoned]

\* update_player_progress with the season appended whether or not the list has it.
update_player_progress_appends(player_id, season, status) ==
    LET state == load_player_state
        entry == IF state[player_id].status = "absent"
                 THEN [NoEntry EXCEPT !.status = "pending"]
                 ELSE state[player_id]
        seasoned == IF season # "None"
                    THEN [entry EXCEPT !.last_scraped_season = season, !.completed_seasons = Append(@, season)]
                    ELSE entry
    IN [state EXCEPT ![player_id] = [seasoned EXCEPT !.status = status]]

\* update_player_progress(player_id, player_name, season, status): the dict it saves.
update_player_progress(player_id, season, status) ==
    LET state == load_player_state
        entry == IF state[player_id].status = "absent"
                 THEN [NoEntry EXCEPT !.status = "pending"]
                 ELSE state[player_id]
        seasoned == IF season # "None"
                    THEN [entry EXCEPT !.last_scraped_season = season, !.completed_seasons = IF season \in SeqRange(@) THEN @ ELSE Append(@, season)]
                    ELSE entry
    IN [state EXCEPT ![player_id] = [seasoned EXCEPT !.status = status]]

\* get_incomplete_players(): the player_ids whose status is not "completed".
get_incomplete_players == {p \in ScPlayers : sc_state[p].status \notin {"absent", "completed"}}

\* mark_player_failed without its writes to the entry.
mark_player_failed_unrecorded(player_id) == load_player_state

\* mark_player_failed(player_id, player_name, reason): the dict it saves.
mark_player_failed(player_id) ==
    LET state == load_player_state
        entry == IF state[player_id].status = "absent" THEN NoEntry ELSE state[player_id]
    IN [state EXCEPT ![player_id] = [entry EXCEPT !.status = "failed", !.failure_reason = TRUE]]

\* Utils/storage.py file_exists(player_name, OUTPUT_DIR).
file_exists(player) == player \in sc_files

(***************************************************************************)
(* scraping/main.py                                                        *)
(***************************************************************************)
Roster == [i \in ScPlayers |-> i]

\* What scrape_players(driver) can return: the players of the roster page it parsed.
Discoveries == {FilterSeq(Roster, S) : S \in SUBSET ScPlayers}

\* main(resume), lines 115-146: the list players_to_scrape.
players_to_scrape(resume, discovered) ==
    IF resume /\ (\E p \in ScPlayers : load_player_state[p].status # "absent")
    THEN IF get_incomplete_players # {} THEN FilterSeq(Roster, get_incomplete_players)
         ELSE discovered
    ELSE discovered

\* main() up to its for loop.
ScraperStart ==
    /\ sc_pc = "idle"
    /\ \E resume \in BOOLEAN, discovered \in Discoveries :
          /\ sc_resume' = resume
          /\ sc_queue' = players_to_scrape(resume, discovered)
    /\ sc_pc' = "loop"
    /\ sc_skipped' = {}
    /\ sc_attempted' = {}
    /\ sc_run_state' = sc_state
    /\ UNCHANGED <<sc_state, sc_files, sc_cur, sc_lost>>
    /\ ScraperOnly

\* main(), lines 115-146, when scrape_players(driver) raises (wages_scrapers.py
\* lines 124-126): the exception leaves main() through its "except Exception: raise".
ScraperDiscoveryFails ==
    /\ sc_pc = "idle"
    /\ \E resume \in BOOLEAN :
          /\ ~(resume /\ (\E p \in ScPlayers : load_player_state[p].status # "absent") /\ get_incomplete_players # {})
          /\ sc_resume' = resume
    /\ sc_queue' = <<>>
    /\ sc_skipped' = {}
    /\ sc_attempted' = {}
    /\ sc_run_state' = sc_state
    /\ UNCHANGED <<sc_state, sc_files, sc_pc, sc_cur, sc_lost>>
    /\ ScraperOnly

\* The loop is over (or players_to_scrape was empty): main() returns.
ScraperEnd ==
    /\ sc_pc = "loop"
    /\ sc_queue = <<>>
    /\ sc_pc' = "idle"
    /\ UNCHANGED <<sc_state, sc_files, sc_resume, sc_queue, sc_cur, sc_skipped, sc_attempted, sc_run_state, sc_lost>>
    /\ ScraperOnly

\* Lines 160-162: the player's file exists and the run resumes.
SkipPlayer ==
    /\ sc_pc = "loop"
    /\ sc_queue # <<>>
    /\ file_exists(Head(sc_queue)) /\ sc_resume
    /\ sc_skipped' = sc_skipped \cup {Head(sc_queue)}
    /\ sc_queue' = Tail(sc_queue)
    /\ UNCHANGED <<sc_state, sc_files, sc_pc, sc_resume, sc_cur, sc_attempted, sc_run_state, sc_lost>>
    /\ ScraperOnly

\* scrape_player, line 54: update_player_progress(status="in_progress").
BeginPlayer ==
    /\ sc_pc = "loop"
    /\ sc_queue # <<>>
    /\ ~(file_exists(Head(sc_queue)) /\ sc_resume)
    /\ \E ok \in BOOLEAN :
          /\ sc_state' = save_player_state(update_player_progress(Head(sc_queue), "None", "in_progress"), ok)
          /\ sc_lost' = (sc_lost \/ ~ok)
    /\ sc_cur' = Head(sc_queue)
    /\ sc_queue' = Tail(sc_queue)
    /\ sc_attempted' = sc_attempted \cup {Head(sc_queue)}
    /\ sc_pc' = "player"
    /\ UNCHANGED <<sc_files, sc_resume, sc_skipped, sc_run_state>>
    /\ ScraperOnly

\* scrape_player, lines 57-80: data was scraped and save_player_data returned a path.
PlayerCompleted ==
    /\ sc_pc = "player"
    /\ sc_files' = sc_files \cup {sc_cur}
    /\ \E ok \in BOOLEAN :
          /\ sc_state' = save_player_state(update_player_progress(sc_cur, SEASONS[Len(SEASONS)], "completed"), ok)
          /\ sc_lost' = (sc_lost \/ ~ok)
    /\ sc_pc' = "loop"
    /\ sc_cur' = 0
    /\ UNCHANGED <<sc_resume, sc_queue, sc_skipped, sc_attempted, sc_run_state>>
    /\ ScraperOnly

\* scrape_player, lines 59-62, 82-84, 86-89: no data, no path, or an exception.
PlayerFailed ==
    /\ sc_pc = "player"
    /\ \E ok \in BOOLEAN :
          /\ sc_state' = save_player_state(mark_player_failed(sc_cur), ok)
          /\ sc_lost' = (sc_lost \/ ~ok)
    /\ sc_pc' = "loop"
    /\ sc_cur' = 0
    /\ UNCHANGED <<sc_files, sc_resume, sc_queue, sc_skipped, sc_attempted, sc_run_state>>
    /\ ScraperOnly

\* KeyboardInterrupt (or the end of the process) anywhere in the loop: main() ends.
ScraperInterrupted ==
    /\ sc_pc \in {"loop", "player"}
    /\ sc_pc' = "idle"
    /\ sc_cur' = 0
    /\ sc_queue' = <<>>
    /\ UNCHANGED <<sc_state, sc_files, sc_resume, sc_skipped, sc_attempted, sc_run_state, sc_lost>>
    /\ ScraperOnly

ScraperIdle ==
    /\ sc_state = [p \in ScPlayers |-> NoEntry]
    /\ sc_files = {}
    /\ sc_pc = "idle"
    /\ sc_resume = TRUE
    /\ sc_queue = <<>>
    /\ sc_cur = 0
    /\ sc_skipped = {}
    /\ sc_attempted = {}
    /\ sc_run_state = [p \in ScPlayers |-> NoEntry]
    /\ sc_lost = FALSE

ScraperNext ==
    \/ ScraperStart
    \/ ScraperDiscoveryFails
    \/ ScraperEnd
    \/ SkipPlayer
    \/ BeginPlayer
    \/ PlayerCompleted
    \/ PlayerFailed
    \/ ScraperInterrupted

\* scraping/main.py lines 165-170: the seasons main() hands to scrape_player, which
\* scrape_all_seasons fetches one after the other.
seasons_to_fetch(player) == SEASONS

\* Scraping/main.py _get_seasons_to_scrape(last_season).
get_seasons_to_scrape(last_season) ==
    IF last_season = "None" THEN SEASONS
    ELSE IF \E i \in 1..Len(SEASONS) : SEASONS[i] = last_season
         THEN LET last_idx == CHOOSE i \in 1..Len(SEASONS) : SEASONS[i] = last_season
              IN SubSeq(SEASONS, last_idx + 1, Len(SEASONS))
         ELSE SEASONS

(***************************************************************************)
(* Api_calls/events.py, Scripts/events_cold_start.py                       *)
(***************************************************************************)
SetMin(S) == CHOOSE m \in S : \A x \in S : m <= x

\* fetch_events_range(start, end): one record per id of range(start, end + 1).
fetch_events_range(start, end) == [i \in 1..(end - start + 1) |-> start + i - 1]

\* write_records without its os.path.exists guard.
target_exists_ignored(exists) == FALSE

\* write_records, line 17: os.path.exists(OUTPUT_FILE); the file exists once a cold
\* start has opened it or append_record has appended a line to it.
target_exists(exists) == exists

\* The cursor is saved although write_records has not returned.
write_records_returned_early(data, file) == TRUE

\* write_records has written every record: its loop (lines 25-28) is over.
write_records_returned(data, file) == Len(file) = Len(data)

ColdFiles == [ndjson |-> ndjson, exists |-> cs_exists, state_file |-> state_file]

\* What a step of the cold start leaves alone.
ColdOnly ==
    /\ UNCHANGED <<events_raw, pc, to_fetch, written, write_failed, run_start>>
    /\ UNCHANGED <<retryVars, upsertVars, predictVars, squadVars, dashVars, scraperVars, registerVars, genVars, cleanVars, storageVars, fetchNewVars, discoveryVars, eventsVars, bestVars, fixtureVars, fbrefVars>>

\* A run begins: the histories of the previous one are dropped.
ColdBegins(result, upstream) ==
    /\ cs_pc = "idle"
    /\ cs_before' = ColdFiles
    /\ cs_cursor_writes' = 0
    /\ cs_result' = result
    /\ cs_upstream' = upstream

\* get_available_gameweeks() raises GameweekDiscoveryError.
ColdDiscoveryFails ==
    /\ ColdBegins("GameweekDiscoveryError", "failed")
    /\ UNCHANGED <<state_file, ndjson, cs_exists, cs_pc, cs_data, cs_end>>
    /\ ColdOnly

\* No gameweek is finished yet: min(gameweeks) raises ValueError.
ColdNoGameweeks ==
    /\ ColdBegins("ValueError", "failed")
    /\ <<>> \in AvailableLists
    /\ UNCHANGED <<state_file, ndjson, cs_exists, cs_pc, cs_data, cs_end>>
    /\ ColdOnly

\* fetch_event_live raises APIRequestError for a gameweek of the range.
ColdFetchFails ==
    /\ ColdBegins("APIRequestError", "failed")
    /\ \E gameweeks \in AvailableLists \ {<<>>} : TRUE
    /\ UNCHANGED <<state_file, ndjson, cs_exists, cs_pc, cs_data, cs_end>>
    /\ ColdOnly

\* Lines 39-46: discovery and the fetch of the whole range succeed.
ColdFetched ==
    /\ ColdBegins("none", "ok")
    /\ \E gameweeks \in AvailableLists \ {<<>>} :
          LET start == SetMin(SeqRange(gameweeks))
              end == SetMax(SeqRange(gameweeks))
          IN /\ cs_data' = fetch_events_range(start, end)
             /\ cs_end' = end
    /\ cs_pc' = "fetched"
    /\ UNCHANGED <<state_file, ndjson, cs_exists>>
    /\ ColdOnly

\* write_records, lines 17-21: the target exists, WriteFileError.
ColdTargetExists ==
    /\ cs_pc = "fetched"
    /\ target_exists(cs_exists \/ ndjson # <<>>)
    /\ cs_result' = "WriteFileError"
    /\ cs_pc' = "idle"
    /\ UNCHANGED <<state_file, ndjson, cs_exists, cs_data, cs_end, cs_upstream, cs_before, cs_cursor_writes>>
    /\ ColdOnly

\* write_records, lines 23-25: open(OUTPUT_FILE, "w") creates or truncates the file.
ColdOpen ==
    /\ cs_pc = "fetched"
    /\ ~target_exists(cs_exists \/ ndjson # <<>>)
    /\ cs_exists' = TRUE
    /\ ndjson' = <<>>
    /\ cs_pc' = "writing"
    /\ UNCHANGED <<state_file, cs_data, cs_end, cs_result, cs_upstream, cs_before, cs_cursor_writes>>
    /\ ColdOnly

\* write_records, lines 26-28: one record reaches the file.
ColdWriteRecord ==
    /\ cs_pc = "writing"
    /\ Len(ndjson) < Len(cs_data)
    /\ ndjson' = Append(ndjson, cs_data[Len(ndjson) + 1])
    /\ UNCHANGED <<state_file, cs_exists, cs_pc, cs_data, cs_end, cs_result, cs_upstream, cs_before, cs_cursor_writes>>
    /\ ColdOnly

\* write_records, lines 32-34: a write raises, the exception is logged and re-raised.
ColdWriteFails ==
    /\ cs_pc = "writing"
    /\ Len(ndjson) < Len(cs_data)
    /\ cs_result' = "OSError"
    /\ cs_pc' = "idle"
    /\ UNCHANGED <<state_file, ndjson, cs_exists, cs_data, cs_end, cs_upstream, cs_before, cs_cursor_writes>>
    /\ ColdOnly

\* Line 50: save_last_event(end), which writes the cursor or raises.
ColdSaveCursor ==
    /\ cs_pc = "writing"
    /\ write_records_returned(cs_data, ndjson)
    /\ \E ok \in BOOLEAN :
          /\ state_file' = IF ok THEN save_last_event(cs_end) ELSE state_file
          /\ cs_cursor_writes' = IF ok THEN cs_cursor_writes + 1 ELSE cs_cursor_writes
          /\ cs_result' = IF ok THEN "ok" ELSE "OSError"
    /\ cs_pc' = "idle"
    /\ UNCHANGED <<ndjson, cs_exists, cs_data, cs_end, cs_upstream, cs_before>>
    /\ ColdOnly

\* The process is interrupted (KeyboardInterrupt, kill) inside the run.
ColdInterrupted ==
    /\ cs_pc \in {"fetched", "writing"}
    /\ cs_result' = "interrupted"
    /\ cs_pc' = "idle"
    /\ UNCHANGED <<state_file, ndjson, cs_exists, cs_data, cs_end, cs_upstream, cs_before, cs_cursor_writes>>
    /\ ColdOnly

ColdIdle ==
    /\ cs_exists = FALSE
    /\ cs_pc = "idle"
    /\ cs_data = <<>>
    /\ cs_end = 0
    /\ cs_result = "none"
    /\ cs_upstream = "none"
    /\ cs_before = [ndjson |-> <<>>, exists |-> FALSE, state_file |-> [exists |-> FALSE, text |-> 0]]
    /\ cs_cursor_writes = 0

\* The files a cold start can find: no NDJSON file or one holding some gameweeks,
\* no cursor file or one holding a gameweek id.
ColdCalls ==
    /\ cs_exists \in BOOLEAN
    /\ ndjson \in {SubSeq(fetch_events_range(1, MaxGW), 1, n) : n \in 0..MaxGW}
    /\ ~cs_exists => ndjson = <<>>
    /\ state_file \in {[exists |-> FALSE, text |-> 0]} \cup {save_last_event(n) : n \in 0..MaxGW}
    /\ events_raw = {} /\ pc = "idle" /\ to_fetch = <<>>
    /\ written = {} /\ write_failed = {} /\ run_start = 0
    /\ cs_pc = "idle"
    /\ cs_data = <<>>
    /\ cs_end = 0
    /\ cs_result = "none"
    /\ cs_upstream = "none"
    /\ cs_before = ColdFiles
    /\ cs_cursor_writes = 0

ColdNext ==
    \/ ColdDiscoveryFails
    \/ ColdNoGameweeks
    \/ ColdFetchFails
    \/ ColdFetched
    \/ ColdTargetExists
    \/ ColdOpen
    \/ ColdWriteRecord
    \/ ColdWriteFails
    \/ ColdSaveCursor
    \/ ColdInterrupted

(***************************************************************************)
(* app/db/models/user.py, app/api/auth/service.py                          *)
(***************************************************************************)
Requests == 1..MaxRequests

Usernames == {"ann", "bob"}

Emails == {"a@x.io", "b@x.io"}

UserCreate == [username : Usernames, email : Emails]

get_user_by_username(username) == {i \in 1..Len(rg_users) : rg_users[i].username = username}

get_user_by_email(email) == {i \in 1..Len(rg_users) : rg_users[i].email = email}

\* user_exists(username=...) and user_exists(email=...).
user_exists_username(username) == get_user_by_username(username) # {}

user_exists_email(email) == get_user_by_email(email) # {}

\* The UNIQUE constraints of CREATE_USERS_TABLE on username and on email.
unique_violation(username, email) == user_exists_username(username) \/ user_exists_email(email)

\* register_user, lines 34-37: the username check.
CheckUsername(r) ==
    /\ rg_pc[r] = "check_username"
    /\ IF user_exists_username(rg_data[r].username)
       THEN /\ rg_pc' = [rg_pc EXCEPT ![r] = "done"]
            /\ rg_result' = [rg_result EXCEPT ![r] = "UserExistsException"]
       ELSE /\ rg_pc' = [rg_pc EXCEPT ![r] = "check_email"]
            /\ UNCHANGED rg_result
    /\ UNCHANGED <<rg_users, rg_data>>
    /\ RegisterOnly

\* register_user, lines 39-42: the email check.
CheckEmail(r) ==
    /\ rg_pc[r] = "check_email"
    /\ IF user_exists_email(rg_data[r].email)
       THEN /\ rg_pc' = [rg_pc EXCEPT ![r] = "done"]
            /\ rg_result' = [rg_result EXCEPT ![r] = "UserExistsException"]
       ELSE /\ rg_pc' = [rg_pc EXCEPT ![r] = "insert"]
            /\ UNCHANGED rg_result
    /\ UNCHANGED <<rg_users, rg_data>>
    /\ RegisterOnly

\* register_user, lines 44-50: create_user's INSERT, which MySQL refuses with an
\* IntegrityError when a UNIQUE constraint is violated.
CreateUser(r) ==
    /\ rg_pc[r] = "insert"
    /\ IF unique_violation(rg_data[r].username, rg_data[r].email)
       THEN /\ rg_result' = [rg_result EXCEPT ![r] = "IntegrityError"]
            /\ UNCHANGED rg_users
       ELSE /\ rg_result' = [rg_result EXCEPT ![r] = "created"]
            /\ rg_users' = Append(rg_users, rg_data[r])
    /\ rg_pc' = [rg_pc EXCEPT ![r] = "done"]
    /\ UNCHANGED rg_data
    /\ RegisterOnly

RegisterIdle ==
    /\ rg_users = <<>>
    /\ rg_data = [r \in Requests |-> [username |-> "ann", email |-> "a@x.io"]]
    /\ rg_pc = [r \in Requests |-> "done"]
    /\ rg_result = [r \in Requests |-> "none"]

RegisterCalls ==
    /\ rg_users = <<>>
    /\ rg_data \in [Requests -> UserCreate]
    /\ rg_pc = [r \in Requests |-> "check_username"]
    /\ rg_result = [r \in Requests |-> "none"]

RegisterNext ==
    \/ \E r \in Requests : CheckUsername(r)
    \/ \E r \in Requests : CheckEmail(r)
    \/ \E r \in Requests : CreateUser(r)

(***************************************************************************)
(* app/api/prediction/service.py: generate_predictions                     *)
(***************************************************************************)
\* The days date.today().isoformat() goes through.
PredictionDates == <<"2026-01-10", "2026-01-11">>

\* Rows of get_player_stats_for_prediction: points and form as in
\* calculate_predicted_points, now_cost in tenths of a million.
StatRows ==
    {[total_points |-> 60, minutes |-> 900, form |-> 150, goals |-> 5, assists |-> 3, position |-> "MID", games_played |-> 10, now_cost |-> 55],
     [total_points |-> 250, minutes |-> 900, form |-> 1500, goals |-> 25, assists |-> 12, position |-> "FWD", games_played |-> 10, now_cost |-> 0],
     [total_points |-> 20, minutes |-> 200, form |-> 50, goals |-> 0, assists |-> 0, position |-> "DEF", games_played |-> 3, now_cost |-> 40]}

MinMinutes == {0, 300}

\* get_player_stats_for_prediction(season, min_minutes): HAVING minutes >= min_minutes.
get_player_stats_for_prediction(min_minutes) ==
    FilterSeq([i \in 1..Cardinality(PlayerIds) |-> i], {p \in PlayerIds : gp_stats[p].minutes >= min_minutes})

\* Lines 206-218: the values generate_predictions computes for one player; points
\* per million in hundredths.
prediction_row(p, today) ==
    LET s == gp_stats[p]
        predicted_pts == calculate_predicted_points(s.total_points, s.minutes, s.form, s.goals, s.assists, s.position, s.games_played)
        pts_per_million == IF s.now_cost > 0 THEN RoundDiv(10 * predicted_pts, s.now_cost) ELSE 0
    IN [player_id |-> p, prediction_date |-> today, predicted_points |-> predicted_pts,
        points_per_million |-> pts_per_million, now_cost |-> s.now_cost,
        total_points |-> s.total_points, form |-> s.form, minutes |-> s.minutes]

\* An INSERT that takes no notice of the key unique_player_date.
insert_plain(table, row) == Append(table, row)

\* Lines 221-240: INSERT ... ON DUPLICATE KEY UPDATE under the key
\* unique_player_date (player_id, prediction_date).
insert_on_duplicate_key_update(table, row) ==
    IF \E i \in 1..Len(table) : table[i].player_id = row.player_id /\ table[i].prediction_date = row.prediction_date
    THEN [i \in 1..Len(table) |-> IF table[i].player_id = row.player_id /\ table[i].prediction_date = row.prediction_date THEN row ELSE table[i]]
    ELSE Append(table, row)

\* The for loop of lines 206-262: ok[p] tells whether the write of player p went
\* through; a failed one is logged and skipped.
RECURSIVE write_predictions(_, _, _, _)
write_predictions(table, players, today, ok) ==
    IF players = <<>> THEN table
    ELSE LET p == Head(players)
             next == IF ok[p] THEN insert_on_duplicate_key_update(table, prediction_row(p, today)) ELSE table
         IN write_predictions(next, Tail(players), today, ok)

\* generate_predictions(season, min_minutes).
GeneratePredictions ==
    /\ \E min_minutes \in MinMinutes, ok \in [PlayerIds -> BOOLEAN] :
          LET players == get_player_stats_for_prediction(min_minutes)
              wrote_all == \A p \in SeqRange(players) : ok[p]
          IN /\ gp_table' = write_predictions(gp_table, players, PredictionDates[gp_today], ok)
             /\ gp_min' = min_minutes
             /\ gp_count' = Cardinality({p \in SeqRange(players) : ok[p]})
             /\ gp_fresh' = IF ~wrote_all THEN gp_fresh
                            ELSE IF gp_fresh = -1 THEN min_minutes ELSE Min(gp_fresh, min_minutes)
    /\ gp_tick' = ~gp_tick
    /\ gp_repeat' = (gp_fresh # -1)
    /\ UNCHANGED <<gp_stats, gp_today>>
    /\ GenOnly

\* The player statistics the predictions are computed from change.
StatsChange ==
    /\ \E stats \in [PlayerIds -> StatRows] :
          /\ stats # gp_stats
          /\ gp_stats' = stats
    /\ gp_fresh' = -1
    /\ gp_repeat' = FALSE
    /\ UNCHANGED <<gp_table, gp_today, gp_min, gp_count, gp_tick>>
    /\ GenOnly

\* Midnight passes.
DayPasses ==
    /\ gp_today < Len(PredictionDates)
    /\ gp_today' = gp_today + 1
    /\ gp_fresh' = -1
    /\ gp_repeat' = FALSE
    /\ UNCHANGED <<gp_table, gp_stats, gp_min, gp_count, gp_tick>>
    /\ GenOnly

GenIdle ==
    /\ gp_table = <<>>
    /\ gp_stats = [p \in PlayerIds |-> CHOOSE s \in StatRows : s.now_cost = 55]
    /\ gp_today = 1
    /\ gp_min = 300
    /\ gp_count = 0
    /\ gp_tick = FALSE
    /\ gp_fresh = -1
    /\ gp_repeat = FALSE

GenCalls ==
    /\ gp_table = <<>>
    /\ gp_stats \in [PlayerIds -> StatRows]
    /\ gp_today = 1
    /\ gp_min = 300
    /\ gp_count = 0
    /\ gp_tick = FALSE
    /\ gp_fresh = -1
    /\ gp_repeat = FALSE

GenNext ==
    \/ GeneratePredictions
    \/ StatsChange
    \/ DayPasses

(***************************************************************************)
(* Scripts/clean_and_store.py                                              *)
(***************************************************************************)
\* The FPL team-seasons fpl_fixtures can hold, with the figures step 4 computes.
FplKeys == {<<"2023-24", 1>>, <<"2023-24", 2>>, <<"2018-19", 1>>}

fpl_row(key) == [season |-> key[1], team_id |-> key[2], played |-> 38, wins |-> 20 + key[2], draws |-> 8, losses |-> 10 - key[2], gf |-> 60 + key[2], ga |-> 40, pts |-> 68 + 3 * key[2]]

\* team_name values of fpl_season_teams; "None" stands for a missing row or a NULL.
TeamNames == {"None", "", "Arsenal", "Spurs"}

\* Rows of the understat aggregate, the xG figures written as text; the two spellings of Arsenal are distinct keys
\* of clean_team_xg_season.
XgRows ==
    {[season |-> 2023, team_name |-> "arsenal ", xg_for |-> "70.12", xg_against |-> "30.55"],
     [season |-> 2023, team_name |-> "Arsenal", xg_for |-> "68.90", xg_against |-> "31.01"],
     [season |-> 2018, team_name |-> "Arsenal", xg_for |-> "55.21", xg_against |-> "44.17"],
     [season |-> 2023, team_name |-> "Tottenham", xg_for |-> "61.02", xg_against |-> "52.30"]}

\* str(r["season"]) of an INT season.
str(season) == IF season = 2023 THEN "2023" ELSE IF season = 2018 THEN "2018" ELSE "?"

\* r["season"].split("-")[0].
season_start(season) == IF season = "2023-24" THEN "2023" ELSE IF season = "2018-19" THEN "2018" ELSE season

\* team_name.lower().strip().
lower_strip(team_name) ==
    CASE team_name \in {"Arsenal", "arsenal "} -> "arsenal"
      [] team_name = "Tottenham" -> "tottenham"
      [] team_name = "Spurs" -> "spurs"
      [] OTHER -> team_name

\* Lines 152-171: the rows of clean_fpl; a team-season whose name is missing or
\* empty is skipped.
clean_fpl ==
    {[season |-> r.season, team_id |-> r.team_id, team_name |-> cl_team_map[<<r.season, r.team_id>>],
      played |-> r.played, wins |-> r.wins, draws |-> r.draws, losses |-> r.losses,
      gf |-> r.gf, ga |-> r.ga, gd |-> r.gf - r.ga, pts |-> r.pts] :
         r \in {x \in cl_fpl_rows : cl_team_map[<<x.season, x.team_id>>] \notin {"None", ""}}}

\* The key of a clean_team_xg_season row in xg_lookup (lines 241-242).
xg_key(r) == <<str(r.season), lower_strip(r.team_name)>>

\* Lines 240-244: the dicts xg_lookup can be; of the rows that share a key the
\* one SELECT * returns last is kept.
xg_lookups(xg) ==
    {f \in [{xg_key(r) : r \in xg} -> xg] : \A k \in DOMAIN f : xg_key(f[k]) = k}

NoXg == [xg_for |-> "NULL", xg_against |-> "NULL"]

\* A lookup that finds nothing.
lookup_get_nothing(xg_lookup, key) == NoXg

\* xg_lookup.get(key, (None, None)).
lookup_get(xg_lookup, key) ==
    IF key \in DOMAIN xg_lookup
    THEN [xg_for |-> xg_lookup[key].xg_for, xg_against |-> xg_lookup[key].xg_against]
    ELSE NoXg

\* Lines 246-256: the list merged.
merged(fpl, xg_lookup) ==
    {[season |-> r.season, team_id |-> r.team_id, team_name |-> r.team_name,
      played |-> r.played, wins |-> r.wins, draws |-> r.draws, losses |-> r.losses,
      gf |-> r.gf, ga |-> r.ga, gd |-> r.gd, pts |-> r.pts,
      xg_for |-> lookup_get(xg_lookup, <<season_start(r.season), lower_strip(r.team_name)>>).xg_for,
      xg_against |-> lookup_get(xg_lookup, <<season_start(r.season), lower_strip(r.team_name)>>).xg_against] :
         r \in fpl}

\* Steps 3 to 6: clean_team_season_stats is filled and committed.
CleanFplStats ==
    /\ cl_pc = "fpl"
    /\ cl_stats' = clean_fpl
    /\ cl_pc' = "xg"
    /\ UNCHANGED <<cl_fpl_rows, cl_team_map, cl_xg_rows, cl_xg, cl_metrics>>
    /\ CleanOnly

\* Steps 7 and 8: clean_team_xg_season is filled and committed.
CleanXgSeason ==
    /\ cl_pc = "xg"
    /\ cl_xg' = cl_xg_rows
    /\ cl_pc' = "merge"
    /\ UNCHANGED <<cl_fpl_rows, cl_team_map, cl_xg_rows, cl_stats, cl_metrics>>
    /\ CleanOnly

\* Steps 9 and 10: the merge, stored in clean_team_season_metrics and committed.
CleanMerge ==
    /\ cl_pc = "merge"
    /\ \E xg_lookup \in xg_lookups(cl_xg) : cl_metrics' = merged(cl_stats, xg_lookup)
    /\ cl_pc' = "done"
    /\ UNCHANGED <<cl_fpl_rows, cl_team_map, cl_xg_rows, cl_stats, cl_xg>>
    /\ CleanOnly

\* A statement raises mysql.connector.Error: the script prints it and exits with 1,
\* what was committed staying.
CleanFails ==
    /\ cl_pc \in {"fpl", "xg", "merge"}
    /\ cl_pc' = "failed"
    /\ UNCHANGED <<cl_fpl_rows, cl_team_map, cl_xg_rows, cl_stats, cl_xg, cl_metrics>>
    /\ CleanOnly

CleanIdle ==
    /\ cl_fpl_rows = {}
    /\ cl_team_map = [k \in FplKeys |-> "None"]
    /\ cl_xg_rows = {}
    /\ cl_stats = {}
    /\ cl_xg = {}
    /\ cl_metrics = {}
    /\ cl_pc = "done"

\* A run of the script after step 2 (the three clean tables dropped and created).
CleanCalls ==
    /\ cl_fpl_rows \in SUBSET {fpl_row(k) : k \in FplKeys}
    /\ cl_team_map \in [FplKeys -> TeamNames]
    /\ cl_xg_rows \in SUBSET XgRows
    /\ cl_stats = {}
    /\ cl_xg = {}
    /\ cl_metrics = {}
    /\ cl_pc = "fpl"

CleanNext ==
    \/ CleanFplStats
    \/ CleanXgSeason
    \/ CleanMerge
    \/ CleanFails

(***************************************************************************)
(* Utils/storage.py                                                        *)
(***************************************************************************)
\* The characters a player name is made of here: letters (one of them outside
\* ASCII), a digit, the three characters kept as they are, and two others.
Alnum == {"K", "e", "é", "1"}

NameChars == Alnum \cup {" ", "-", "_", "/", "."}

PlayerNames == UNION {[1..n -> NameChars] : n \in 0..MaxNameLen}

\* c if c.isalnum() or c in (' ', '-', '_') else '_', for every c of the name.
keep_or_underscore(name) == [i \in 1..Len(name) |-> IF name[i] \in Alnum \cup {" ", "-", "_"} THEN name[i] ELSE "_"]

\* str.strip() of a string whose only whitespace is the space.
RECURSIVE strip(_)
strip(s) ==
    IF s = <<>> THEN s
    ELSE IF Head(s) = " " THEN strip(Tail(s))
    ELSE IF s[Len(s)] = " " THEN strip(SubSeq(s, 1, Len(s) - 1))
    ELSE s

\* str.replace(' ', '_').
replace_spaces(s) == [i \in 1..Len(s) |-> IF s[i] = " " THEN "_" ELSE s[i]]

\* save_player_data, lines 43-45: safe_name.
save_safe_name(player_name) == replace_spaces(strip(keep_or_underscore(player_name)))

\* A safe_name computed without the strip().
exists_safe_name_unstripped(player_name) == replace_spaces(keep_or_underscore(player_name))

\* file_exists, lines 71-73: safe_name.
exists_safe_name(player_name) == replace_spaces(strip(keep_or_underscore(player_name)))

\* save_player_data(player_name, player_id, dataframes, output_dir): no dataframes,
\* a failed to_csv, or the file written and its path returned.
SavePlayerData ==
    /\ sn_saved = "none"
    /\ \E outcome \in {"None", "raised", "path"} :
          /\ sn_saved' = outcome
          /\ sn_dir' = IF outcome = "path" THEN sn_dir \cup {save_safe_name(sn_name)} ELSE sn_dir
    /\ UNCHANGED <<sn_name, sn_found>>
    /\ StorageOnly

\* file_exists(player_name, output_dir).
FileExists ==
    /\ sn_found = "none"
    /\ sn_found' = IF exists_safe_name(sn_name) \in sn_dir THEN "True" ELSE "False"
    /\ UNCHANGED <<sn_name, sn_dir, sn_saved>>
    /\ StorageOnly

StorageIdle ==
    /\ sn_name = <<>>
    /\ sn_dir = {}
    /\ sn_saved = "none"
    /\ sn_found = "none"

\* Calls for one player name over an empty output directory.
StorageCalls ==
    /\ sn_name \in PlayerNames
    /\ sn_dir = {}
    /\ sn_saved = "none"
    /\ sn_found = "none"

StorageNext ==
    \/ SavePlayerData
    \/ FileExists

(***************************************************************************)
(* Api_calls/get_available_gameweeks.py: fetch_new_events_dataframe        *)
(***************************************************************************)
\* What a step of fetch_new_events_dataframe leaves alone.
FetchNewOnly ==
    /\ UNCHANGED <<ndjson, events_raw, pc, to_fetch, written, write_failed, run_start>>
    /\ UNCHANGED <<retryVars, upsertVars, predictVars, squadVars, dashVars, scraperVars, coldVars, registerVars, genVars, cleanVars, storageVars, discoveryVars, eventsVars, bestVars, fixtureVars, fbrefVars>>

\* The cursor is set to the last pending gameweek at once.
last_event_id(pending, i) == pending[Len(pending)]

\* Line 63: event_id, the loop variable at the i-th turn of the loop.
loop_event_id(pending, i) == pending[i]

\* Line 52 raises GameweekDiscoveryError.
FetchNewDiscoveryFails ==
    /\ fn_pc = "idle"
    /\ fn_result' = "GameweekDiscoveryError"
    /\ fn_to_fetch' = <<>>
    /\ fn_done' = 0 /\ fn_failed_at' = 0
    /\ fn_start' = state_file
    /\ UNCHANGED <<state_file, fn_pc, fn_fetched, fn_returned>>
    /\ FetchNewOnly

\* Lines 52-60: discovery, the cursor read, to_fetch built; None when it is empty.
FetchNewStart ==
    /\ fn_pc = "idle"
    /\ \E available \in AvailableLists :
          LET last == load_last_event
              pending == FilterSeq(available, {e \in GameweekIds : e > last})
          IN /\ fn_to_fetch' = pending
             /\ fn_pc' = IF pending = <<>> THEN "idle" ELSE "loop"
             /\ fn_result' = IF pending = <<>> THEN "None" ELSE "none"
    /\ fn_done' = 0 /\ fn_failed_at' = 0
    /\ fn_start' = state_file
    /\ UNCHANGED <<state_file, fn_fetched, fn_returned>>
    /\ FetchNewOnly

\* Lines 63-74: one turn of the loop, ending with save_last_event(event_id).
FetchNewGameweek ==
    /\ fn_pc = "loop"
    /\ fn_done < Len(fn_to_fetch)
    /\ state_file' = save_last_event(loop_event_id(fn_to_fetch, fn_done + 1))
    /\ fn_done' = fn_done + 1
    /\ UNCHANGED <<fn_to_fetch, fn_pc, fn_result, fn_start, fn_failed_at>>
    /\ fn_fetched' = fn_fetched \cup {loop_event_id(fn_to_fetch, fn_done + 1)}
    /\ UNCHANGED fn_returned
    /\ FetchNewOnly

\* Line 66: fetch_event_live raises APIRequestError.
FetchNewFetchFails ==
    /\ fn_pc = "loop"
    /\ fn_done < Len(fn_to_fetch)
    /\ fn_result' = "APIRequestError"
    /\ fn_failed_at' = fn_done + 1
    /\ fn_pc' = "idle"
    /\ UNCHANGED <<state_file, fn_to_fetch, fn_done, fn_start, fn_fetched, fn_returned>>
    /\ FetchNewOnly

\* Line 69: json_to_dataframe raises ValueError on elements that are no list or dict.
FetchNewFlattenFails ==
    /\ fn_pc = "loop"
    /\ fn_done < Len(fn_to_fetch)
    /\ fn_result' = "ValueError"
    /\ fn_pc' = "idle"
    /\ UNCHANGED <<state_file, fn_to_fetch, fn_done, fn_start, fn_failed_at>>
    /\ fn_fetched' = fn_fetched \cup {loop_event_id(fn_to_fetch, fn_done + 1)}
    /\ UNCHANGED fn_returned
    /\ FetchNewOnly

\* Line 76: the loop is over, the concatenated dataframe is returned.
FetchNewReturns ==
    /\ fn_pc = "loop"
    /\ fn_done = Len(fn_to_fetch)
    /\ fn_result' = "dataframe"
    /\ fn_pc' = "idle"
    /\ UNCHANGED <<state_file, fn_to_fetch, fn_done, fn_start, fn_failed_at>>
    /\ fn_returned' = fn_returned \cup SeqRange(fn_to_fetch)
    /\ UNCHANGED fn_fetched
    /\ FetchNewOnly

FetchNewIdle ==
    /\ fn_to_fetch = <<>>
    /\ fn_done = 0
    /\ fn_pc = "idle"
    /\ fn_result = "none"
    /\ fn_start = [exists |-> FALSE, text |-> 0]
    /\ fn_failed_at = 0
    /\ fn_fetched = {}
    /\ fn_returned = {}

FetchNewNext ==
    \/ FetchNewDiscoveryFails
    \/ FetchNewStart
    \/ FetchNewGameweek
    \/ FetchNewFetchFails
    \/ FetchNewFlattenFails
    \/ FetchNewReturns

(***************************************************************************)
(* Api_calls/get_available_gameweeks.py: get_available_gameweeks           *)
(***************************************************************************)
\* Lines 24-30: the payload arrived; the list comprehension over payload["events"].
GetAvailableGameweeks ==
    /\ ga_result.kind = "none"
    /\ ga_result' = [kind |-> "returned", gameweeks |-> get_available_gameweeks(ga_events)]
    /\ UNCHANGED ga_events
    /\ DiscoveryOnly

\* Lines 32-34: the request failed for good, GameweekDiscoveryError.
GetAvailableGameweeksFails ==
    /\ ga_result.kind = "none"
    /\ ga_result' = [kind |-> "GameweekDiscoveryError", gameweeks |-> <<>>]
    /\ UNCHANGED ga_events
    /\ DiscoveryOnly

DiscoveryIdle ==
    /\ ga_events = <<>>
    /\ ga_result = [kind |-> "returned", gameweeks |-> <<>>]

\* A call of get_available_gameweeks() against any payload of the upstream.
DiscoveryCalls ==
    /\ ga_events \in Bootstraps
    /\ ga_result = [kind |-> "none", gameweeks |-> <<>>]

DiscoveryNext ==
    \/ GetAvailableGameweeks
    \/ GetAvailableGameweeksFails

(***************************************************************************)
(* Utils/db.py upsert_events                                               *)
(***************************************************************************)
EventIds == 1..MaxEventRecs

EventPayloads == {"a", "b", "c"}

\* The records a caller can pass: with both keys, without "event_id", without "data".
EventRecords ==
    [has_event_id : {TRUE}, has_data : {TRUE}, event_id : EventIds, data : EventPayloads]
        \cup {[has_event_id |-> FALSE, has_data |-> TRUE, event_id |-> 0, data |-> "a"]}
        \cup {[has_event_id |-> TRUE, has_data |-> FALSE, event_id |-> 1, data |-> "none"]}

EventBatches == UNION {[1..n -> EventRecords] : n \in 0..MaxEventRecs}

\* lines 131-141: the (event_id, payload_json) pairs of the records that have both
\* keys, in the order of the batch; a KeyError skips the record.
RECURSIVE upsert_params(_)
upsert_params(records) ==
    IF records = <<>> THEN <<>>
    ELSE LET rec == Head(records)
         IN IF rec.has_event_id /\ rec.has_data
            THEN <<[event_id |-> rec.event_id, payload |-> rec.data]>> \o upsert_params(Tail(records))
            ELSE upsert_params(Tail(records))

\* INSERT INTO events_raw without its ON DUPLICATE KEY UPDATE clause, on a table
\* without the unique key.
insert_row(table, row) == table \cup {row}

\* lines 124-129 for one pair: INSERT ... ON DUPLICATE KEY UPDATE payload = VALUES(payload)
\* on the table whose event_id is UNIQUE (lines 87-95).
insert_or_update_row(table, row) ==
    {r \in table : r.event_id # row.event_id} \cup {row}

\* line 148: cur.executemany(sql, params), one pair after the other.
RECURSIVE executemany_events(_, _)
executemany_events(table, params) ==
    IF params = <<>> THEN table
    ELSE executemany_events(insert_or_update_row(table, Head(params)), Tail(params))

\* The payload a batch upserts last for an event_id, "none" when it upserts none.
LatestIn(records, e) ==
    LET hits == {i \in 1..Len(records) : records[i].has_event_id /\ records[i].has_data /\ records[i].event_id = e}
    IN IF hits = {} THEN "none"
       ELSE records[CHOOSE i \in hits : \A j \in hits : j <= i].data

\* upsert_events(records), lines 109-149: the batch is committed.
UpsertEventsCommits ==
    /\ ue_calls < MaxUpserts
    /\ \E records \in EventBatches :
          LET params == upsert_params(records)
          IN /\ ue_table' = IF records = <<>> \/ params = <<>> THEN ue_table ELSE executemany_events(ue_table, params)
             /\ ue_latest' = [e \in EventIds |-> IF LatestIn(records, e) = "none" THEN ue_latest[e] ELSE LatestIn(records, e)]
             /\ ue_skipped' = Len(records) - Len(params)
    /\ ue_calls' = ue_calls + 1
    /\ ue_result' = "returned"
    /\ EventsOnly

\* upsert_events(records), lines 118-119 and 146-152: the connection, the CREATE TABLE
\* or the executemany raises; nothing is committed, DBWriteError or DBConnectionError.
UpsertEventsDBError ==
    /\ ue_calls < MaxUpserts
    /\ \E records \in EventBatches :
          /\ records # <<>>
          /\ ue_skipped' = Len(records) - Len(upsert_params(records))
    /\ ue_calls' = ue_calls + 1
    /\ ue_result' = "raised"
    /\ UNCHANGED <<ue_table, ue_latest>>
    /\ EventsOnly

EventsIdle ==
    /\ ue_table = {}
    /\ ue_latest = [e \in EventIds |-> "none"]
    /\ ue_calls = 0
    /\ ue_skipped = 0
    /\ ue_result = "none"

EventsNext ==
    \/ UpsertEventsCommits
    \/ UpsertEventsDBError

(***************************************************************************)
(* app/api/prediction/service.py: generate_predictions and                 *)
(* get_best_players over two seasons on one day                            *)
(***************************************************************************)
BestSeasons == {"2024-25", "2023-24"}

BestToday == "today"

\* The row generate_predictions writes for a player of a season (lines 206-259).
season_prediction_row(season, p) ==
    [player_id |-> p, prediction_date |-> BestToday, season |-> season,
     predicted_points |-> IF season = CURRENT_SEASON THEN 500 + p ELSE 400 + p]

\* generate_predictions(season, min_minutes): the for loop over the players, each
\* written by the INSERT ... ON DUPLICATE KEY UPDATE of lines 221-240 (season =
\* VALUES(season) included) under the unique key (player_id, prediction_date).
RECURSIVE generate_predictions(_, _, _)
generate_predictions(table, season, players) ==
    IF players = {} THEN table
    ELSE LET p == SetMin(players)
         IN generate_predictions(insert_on_duplicate_key_update(table, season_prediction_row(season, p)), season, players \ {p})

\* get_best_players, lines 279-283: the rows of today and of the season.
rows_of_season(table, season) ==
    {i \in 1..Len(table) : table[i].prediction_date = BestToday /\ table[i].season = season}

\* get_best_players, lines 316-329: the player_ids of the rows the query selects.
best_players(table, season) == {table[i].player_id : i \in rows_of_season(table, season)}

\* A call of generate_predictions(season).
BestGenerate ==
    /\ \E season \in BestSeasons :
          /\ bp_table' = generate_predictions(bp_table, season, bp_players[season])
          /\ bp_season' = season
    /\ UNCHANGED <<bp_players, bp_best>>
    /\ BestOnly

\* A call of get_best_players(filters): predictions are generated when the table
\* has no row of today and of filters.season, then the rows are selected.
BestPlayers ==
    /\ \E season \in BestSeasons :
          LET table == IF rows_of_season(bp_table, season) = {}
                       THEN generate_predictions(bp_table, season, bp_players[season])
                       ELSE bp_table
          IN /\ bp_table' = table
             /\ bp_best' = [bp_best EXCEPT ![season] = best_players(table, season)]
             /\ bp_season' = season
    /\ UNCHANGED bp_players
    /\ BestOnly

BestIdle ==
    /\ bp_table = <<>>
    /\ bp_players = [s \in BestSeasons |-> {}]
    /\ bp_season = CURRENT_SEASON
    /\ bp_best = [s \in BestSeasons |-> {0}]

\* The players of each season that qualify for a prediction; {0} stands for a
\* season get_best_players was not called for.
BestCalls ==
    /\ bp_table = <<>>
    /\ bp_players \in [BestSeasons -> SUBSET PlayerIds]
    /\ bp_season = CURRENT_SEASON
    /\ bp_best = [s \in BestSeasons |-> {0}]

BestNext ==
    \/ BestGenerate
    \/ BestPlayers

(***************************************************************************)
(* Scripts/ingest_fixture.py                                               *)
(***************************************************************************)
FixtureGWs == 1..MaxFixGW

\* fetch_fixtures_for_gameweek(gw): the fixtures of the gameweek as upstream has
\* them now, the empty list past the last gameweek.
fetch_fixtures_for_gameweek(gw) ==
    IF gw \in FixtureGWs THEN <<[event |-> gw, finished |-> fx_upstream[gw]]>> ELSE <<>>

\* get_last_fixture_gw(): the max event of the CSV, 0 without a row.
get_last_fixture_gw ==
    IF fx_csv = <<>> THEN 0
    ELSE CHOOSE m \in {fx_csv[i].event : i \in 1..Len(fx_csv)} : \A i \in 1..Len(fx_csv) : fx_csv[i].event <= m

\* ingest_fixtures, lines 96-99: the run starts one past the last gameweek of the CSV.
IngestStart ==
    /\ fx_pc = "idle"
    /\ fx_gw' = get_last_fixture_gw + 1
    /\ fx_pc' = "loop"
    /\ UNCHANGED <<fx_upstream, fx_csv, fx_table>>
    /\ FixtureOnly

\* Lines 104-112: the fixtures of gw are fetched, appended to the CSV and upserted
\* into the table by their id.
IngestGameweek ==
    /\ fx_pc = "loop"
    /\ fetch_fixtures_for_gameweek(fx_gw) # <<>>
    /\ fx_csv' = fx_csv \o fetch_fixtures_for_gameweek(fx_gw)
    /\ fx_table' = [fx_table EXCEPT ![fx_gw] = IF fx_upstream[fx_gw] THEN "finished" ELSE "unfinished"]
    /\ fx_gw' = fx_gw + 1
    /\ UNCHANGED <<fx_upstream, fx_pc>>
    /\ FixtureOnly

\* Lines 106-108: no fixture is returned, the loop is left.
IngestStops ==
    /\ fx_pc = "loop"
    /\ fetch_fixtures_for_gameweek(fx_gw) = <<>>
    /\ fx_pc' = "idle"
    /\ UNCHANGED <<fx_upstream, fx_csv, fx_table, fx_gw>>
    /\ FixtureOnly

\* Line 104: fetch_fixtures_for_gameweek raises RuntimeError, the run ends.
IngestFetchFails ==
    /\ fx_pc = "loop"
    /\ fx_pc' = "idle"
    /\ UNCHANGED <<fx_upstream, fx_csv, fx_table, fx_gw>>
    /\ FixtureOnly

\* write_fixtures, lines 67-86: the rows are in the CSV and upsert_dataframe raises.
IngestUpsertFails ==
    /\ fx_pc = "loop"
    /\ fetch_fixtures_for_gameweek(fx_gw) # <<>>
    /\ fx_csv' = fx_csv \o fetch_fixtures_for_gameweek(fx_gw)
    /\ fx_pc' = "idle"
    /\ UNCHANGED <<fx_upstream, fx_table, fx_gw>>
    /\ FixtureOnly

\* Upstream: the fixture of a gameweek is played and gets its scores.
FixtureFinishes ==
    /\ \E gw \in FixtureGWs :
          /\ ~fx_upstream[gw]
          /\ fx_upstream' = [fx_upstream EXCEPT ![gw] = TRUE]
    /\ UNCHANGED <<fx_csv, fx_table, fx_pc, fx_gw>>
    /\ FixtureOnly

FixtureIdle ==
    /\ fx_upstream = [gw \in FixtureGWs |-> FALSE]
    /\ fx_csv = <<>>
    /\ fx_table = [gw \in FixtureGWs |-> "absent"]
    /\ fx_pc = "idle"
    /\ fx_gw = 0

IngestNext ==
    \/ IngestStart
    \/ IngestGameweek
    \/ IngestStops
    \/ IngestFetchFails
    \/ IngestUpsertFails

FixtureNext ==
    \/ IngestNext
    \/ FixtureFinishes

(***************************************************************************)
(* Scraping/main.py: FBrefScraper, one player                              *)
(***************************************************************************)
FbSeasons == SubSeq(SEASONS, 1, MaxFbSeasons)

\* StateManager.load_state(): the dict the state file holds.
state_manager_load_state == fb_state

\* StateManager.save_state(state): the dict is written to the state file.
state_manager_save_state(state) == state

\* _get_seasons_to_scrape(last_season), lines 272-289.
fb_get_seasons_to_scrape(last_season) ==
    IF last_season = "None" THEN FbSeasons
    ELSE IF \E i \in 1..Len(FbSeasons) : FbSeasons[i] = last_season
         THEN LET last_idx == CHOOSE i \in 1..Len(FbSeasons) : FbSeasons[i] = last_season
              IN SubSeq(FbSeasons, last_idx + 1, Len(FbSeasons))
         ELSE FbSeasons

\* _update_player_state(player_id, player_name, last_season, completed), lines 291-320.
update_player_state(last_season, completed) ==
    LET state == state_manager_load_state
        seasoned == IF last_season # "None" THEN [state EXCEPT !.last_scraped_season = last_season] ELSE state
        done == IF completed THEN [seasoned EXCEPT !.completed = TRUE] ELSE seasoned
    IN state_manager_save_state(done)

\* _scrape_all_players, lines 133-142: a player not yet completed is taken, with the
\* seasons after its last scraped one (a completed player is skipped).
FbStartPlayer ==
    /\ fb_pc = "idle"
    /\ ~state_manager_load_state.completed
    /\ fb_todo' = fb_get_seasons_to_scrape(state_manager_load_state.last_scraped_season)
    /\ fb_dfs' = {}
    /\ fb_all_success' = TRUE
    /\ fb_pc' = "seasons"
    /\ UNCHANGED <<fb_state, fb_csv, fb_scraped>>
    /\ FbrefOnly

\* _scrape_player_seasons, lines 186-206: the season gave a frame with rows.
FbSeasonData ==
    /\ fb_pc = "seasons"
    /\ fb_todo # <<>>
    /\ fb_dfs' = fb_dfs \cup {Head(fb_todo)}
    /\ fb_state' = update_player_state(Head(fb_todo), FALSE)
    /\ fb_scraped' = fb_scraped \cup {Head(fb_todo)}
    /\ fb_todo' = Tail(fb_todo)
    /\ UNCHANGED <<fb_csv, fb_pc, fb_all_success>>
    /\ FbrefOnly

\* Lines 208-216: the season gave no data.
FbSeasonNoData ==
    /\ fb_pc = "seasons"
    /\ fb_todo # <<>>
    /\ fb_todo' = Tail(fb_todo)
    /\ UNCHANGED <<fb_state, fb_csv, fb_pc, fb_dfs, fb_all_success, fb_scraped>>
    /\ FbrefOnly

\* Lines 218-231: scrape_season raised, the loop continues.
FbSeasonError ==
    /\ fb_pc = "seasons"
    /\ fb_todo # <<>>
    /\ fb_all_success' = FALSE
    /\ fb_todo' = Tail(fb_todo)
    /\ UNCHANGED <<fb_state, fb_csv, fb_pc, fb_dfs, fb_scraped>>
    /\ FbrefOnly

\* Lines 233-237, 239-270 and 152-154: the frames of this run are saved (_save_player_data
\* logs and swallows a failure) and the player is marked completed when
\* _scrape_player_seasons returned True.
FbFinishPlayer ==
    /\ fb_pc = "seasons"
    /\ fb_todo = <<>>
    /\ \E saved \in BOOLEAN :
          fb_csv' = IF fb_dfs # {} /\ saved THEN [exists |-> TRUE, seasons |-> fb_dfs] ELSE fb_csv
    /\ fb_state' = IF fb_dfs # {} \/ fb_all_success THEN update_player_state("None", TRUE) ELSE fb_state
    /\ fb_pc' = "idle"
    /\ UNCHANGED <<fb_todo, fb_dfs, fb_all_success, fb_scraped>>
    /\ FbrefOnly

\* run(), lines 81-82: KeyboardInterrupt inside the season loop; season_dfs is gone.
FbInterrupted ==
    /\ fb_pc = "seasons"
    /\ fb_pc' = "idle"
    /\ fb_todo' = <<>>
    /\ fb_dfs' = {}
    /\ UNCHANGED <<fb_state, fb_csv, fb_all_success, fb_scraped>>
    /\ FbrefOnly

FbrefIdle ==
    /\ fb_state = [last_scraped_season |-> "None", completed |-> FALSE]
    /\ fb_csv = [exists |-> FALSE, seasons |-> {}]
    /\ fb_pc = "idle"
    /\ fb_todo = <<>>
    /\ fb_dfs = {}
    /\ fb_all_success = TRUE
    /\ fb_scraped = {}

FbrefNext ==
    \/ FbStartPlayer
    \/ FbSeasonData
    \/ FbSeasonNoData
    \/ FbSeasonError
    \/ FbFinishPlayer
    \/ FbInterrupted

(***************************************************************************)
(* Specifications                                                          *)
(***************************************************************************)
Init ==
    /\ PipeInit /\ RetryIdle /\ UpsertIdle /\ PredictIdle
    /\ SquadIdle /\ DashIdle /\ ScraperIdle /\ ColdIdle
    /\ RegisterIdle /\ GenIdle /\ CleanIdle /\ StorageIdle
    /\ FetchNewIdle /\ DiscoveryIdle /\ EventsIdle /\ BestIdle
    /\ FixtureIdle /\ FbrefIdle

\* Calls of safe_get and of retry_request.
RetryInit ==
    /\ PipeInit /\ RetryCalls /\ UpsertIdle /\ PredictIdle
    /\ SquadIdle /\ DashIdle /\ ScraperIdle /\ ColdIdle
    /\ RegisterIdle /\ GenIdle /\ CleanIdle /\ StorageIdle
    /\ FetchNewIdle /\ DiscoveryIdle /\ EventsIdle /\ BestIdle
    /\ FixtureIdle /\ FbrefIdle

SpecRetry == RetryInit /\ [][RetryNext]_vars

\* Repeated upserts of one dataframe into an empty database.
UpsertInit ==
    /\ PipeInit /\ RetryIdle /\ UpsertCalls /\ PredictIdle
    /\ SquadIdle /\ DashIdle /\ ScraperIdle /\ ColdIdle
    /\ RegisterIdle /\ GenIdle /\ CleanIdle /\ StorageIdle
    /\ FetchNewIdle /\ DiscoveryIdle /\ EventsIdle /\ BestIdle
    /\ FixtureIdle /\ FbrefIdle

SpecUpsert == UpsertInit /\ [][UpsertNext]_vars

\* Calls of calculate_predicted_points.
PredictInit ==
    /\ PipeInit /\ RetryIdle /\ UpsertIdle /\ PredictCalls
    /\ SquadIdle /\ DashIdle /\ ScraperIdle /\ ColdIdle
    /\ RegisterIdle /\ GenIdle /\ CleanIdle /\ StorageIdle
    /\ FetchNewIdle /\ DiscoveryIdle /\ EventsIdle /\ BestIdle
    /\ FixtureIdle /\ FbrefIdle

SpecPredict == PredictInit /\ [][PredictNext]_vars

\* Calls of get_budget_optimized_squad.
SquadInit ==
    /\ PipeInit /\ RetryIdle /\ UpsertIdle /\ PredictIdle
    /\ SquadCalls /\ DashIdle /\ ScraperIdle /\ ColdIdle
    /\ RegisterIdle /\ GenIdle /\ CleanIdle /\ StorageIdle
    /\ FetchNewIdle /\ DiscoveryIdle /\ EventsIdle /\ BestIdle
    /\ FixtureIdle /\ FbrefIdle

SpecSquad == SquadInit /\ [][SquadNext]_vars

\* Calls of the dashboard service functions.
DashInit ==
    /\ PipeInit /\ RetryIdle /\ UpsertIdle /\ PredictIdle
    /\ SquadIdle /\ DashCalls /\ ScraperIdle /\ ColdIdle
    /\ RegisterIdle /\ GenIdle /\ CleanIdle /\ StorageIdle
    /\ FetchNewIdle /\ DiscoveryIdle /\ EventsIdle /\ BestIdle
    /\ FixtureIdle /\ FbrefIdle

SpecDashboard == DashInit /\ [][DashNext]_vars

\* Incremental runs against an upstream that may list the gameweeks in any order.
SpecIncremental == Init /\ [][IncrementalNext(AvailableLists)]_vars

\* Incremental runs against an upstream that answers with regular payloads only.
SpecIncrementalRegular == Init /\ [][IncrementalNext(RegularAvailableLists)]_vars

(***************************************************************************)
(* C1: after any sequence of incremental runs the cursor read by           *)
(* load_last_event() is not below the value the latest run started from    *)
(* and equals the highest gameweek id fetched and written by any run.      *)
(***************************************************************************)
C1_CursorIsHighestWritten ==
    pc = "idle" =>
        /\ load_last_event >= run_start
        /\ load_last_event = SetMax(written)

(***************************************************************************)
(* C2: a gameweek whose append_record failed keeps the cursor below it     *)
(* until it is stored in both the NDJSON file and events_raw.              *)
(***************************************************************************)
C2_CursorBelowFailedWrite ==
    \A g \in write_failed :
        ~(g \in SeqRange(ndjson) /\ g \in events_raw) => load_last_event < g

(***************************************************************************)
(* C3: in safe_get a response classified as a client error ends the call   *)
(* at once with FPLClientError: the GET that got it is the only one made   *)
(* and nothing was slept.                                                  *)
(***************************************************************************)
IsClientError(o) == o.kind = "response" /\ raw_get(o).value = "FPLClientError"
                        /\ raw_get(o).kind = "raise"

C3_ClientErrorNotRetried ==
    (rq_caller = "safe_get" /\ \E i \in 1..Len(rq_trace) : IsClientError(rq_trace[i]))
        => /\ rq_pc = "done"
           /\ rq_result = [kind |-> "raise", value |-> "FPLClientError"]
           /\ Len(rq_trace) = 1
           /\ rq_sleeps = <<>>

(***************************************************************************)
(* C4: with retries=3 and backoff=2, an operation failing on its first two *)
(* invocations and succeeding on the third is invoked three times, two     *)
(* sleeps happen, the first in [2,3) s and the second in [4,5) s, and the  *)
(* third invocation's result is returned unchanged.                        *)
(***************************************************************************)
FailsTwiceThenSucceeds ==
    /\ rq_retries = 3
    /\ rq_backoff = 2
    /\ rq_pc = "done"
    /\ Len(rq_trace) >= 3
    /\ raw_get(rq_trace[1]).kind = "raise"
    /\ raw_get(rq_trace[2]).kind = "raise"
    /\ raw_get(rq_trace[3]).kind = "return"

C4_TwoRetriesWithBackoff ==
    FailsTwiceThenSucceeds =>
        /\ Len(rq_trace) = 3
        /\ Len(rq_sleeps) = 2
        /\ 2 * JitterSteps <= rq_sleeps[1] /\ rq_sleeps[1] < 3 * JitterSteps
        /\ 4 * JitterSteps <= rq_sleeps[2] /\ rq_sleeps[2] < 5 * JitterSteps
        /\ rq_result = [kind |-> "return", value |-> rq_trace[3].body]

C4_Witness == FailsTwiceThenSucceeds /\ rq_caller = "direct" /\ rq_jitter

(***************************************************************************)
(* C5: with a primary-key list, upserting the same dataframe again raises  *)
(* nothing and leaves the table exactly as the first call left it, also    *)
(* when the dataframe has no column outside the key.                       *)
(***************************************************************************)
C5_UpsertIdempotent ==
    (ud_pk # <<>> /\ ud_calls >= 2) => (~ud_error /\ ud_table = ud_first)

(***************************************************************************)
(* C6 as claimed: calculate_predicted_points returns a value in            *)
(* [2.0, 15.0] for every input, and max(form, 2.0) whenever minutes is 0.  *)
(***************************************************************************)
C6_Original ==
    pp_out.done =>
        /\ 200 <= pp_out.value /\ pp_out.value <= 1500
        /\ pp_in.minutes = 0 => pp_out.value = Max(pp_in.form, 200)

(***************************************************************************)
(* C6 amended: the value is at least 2.0 for every input; it is at most    *)
(* 15.0 unless games_played is 0 or minutes is below 90 and form exceeds   *)
(* 15; whenever minutes is 0 it is max(form, 2.0).                         *)
(***************************************************************************)
C6_PredictedPointsRange ==
    pp_out.done =>
        /\ 200 <= pp_out.value
        /\ pp_out.value > 1500 =>
              /\ pp_in.games_played = 0 \/ pp_in.minutes < 90
              /\ pp_in.form > 1500
        /\ pp_in.minutes = 0 => pp_out.value = Max(pp_in.form, 200)

\* A player with enough minutes whose weighted sum exceeds 15 points.
C6_Witness ==
    /\ pp_out.done
    /\ pp_in.games_played > 0 /\ pp_in.minutes >= 90
    /\ pp_in.total_points = 250 /\ pp_in.form = 1650 /\ pp_in.games_played = 10
    /\ pp_out.value = 1500

(***************************************************************************)
(* C7 as stated: whatever max_budget, formation and table, the squad       *)
(* returned costs at most max_budget in total and holds no more players    *)
(* of a position than the formation asks for (one goalkeeper).             *)
(***************************************************************************)
RECURSIVE SumCosts(_)
SumCosts(ids) == IF ids = <<>> THEN 0
                 ELSE sq_table[Head(ids)].now_cost + SumCosts(Tail(ids))

SquadCost == SumCosts(sq_squad["GKP"]) + SumCosts(sq_squad["DEF"])
             + SumCosts(sq_squad["MID"]) + SumCosts(sq_squad["FWD"])

WithinFormation ==
    LET parts == formation_parts(sq_formation)
    IN /\ Len(sq_squad["GKP"]) <= 1
       /\ Len(sq_squad["DEF"]) <= int(parts[1])
       /\ Len(sq_squad["MID"]) <= int(parts[2])
       /\ Len(sq_squad["FWD"]) <= int(parts[3])

C7_Original ==
    sq_pc = "done" => (SquadCost <= sq_budget /\ WithinFormation)

(***************************************************************************)
(* C7: the squad returned holds no more players of a position than the     *)
(* formation asks for (one goalkeeper, no player twice), its summed costs  *)
(* are the total_cost reported, and they are at most max_budget when       *)
(* max_budget is not negative; a negative max_budget gives an empty squad. *)
(***************************************************************************)
C7_SquadFeasible ==
    sq_pc = "done" =>
        /\ WithinFormation
        /\ SquadCost = sq_total_cost
        /\ sq_budget >= 0 => SquadCost <= sq_budget
        /\ sq_budget < 0 => sq_squad = EmptySquad
        /\ \A p, q \in SeqRange(Positions) :
               \A i \in 1..Len(sq_squad[p]) : \A j \in 1..Len(sq_squad[q]) :
                   (sq_squad[p][i] = sq_squad[q][j]) => (p = q /\ i = j)

\* Two defenders were asked for and both were offered by the query, but the second
\* would have taken the squad over the budget.
C7_Witness ==
    /\ sq_pc = "done"
    /\ sq_budget = 1000
    /\ sq_formation = <<"2", "1", "1">>
    /\ Len(sq_squad["DEF"]) = 1
    /\ Cardinality({id \in DOMAIN sq_table : sq_table[id].position = "DEF"}) = 2
    /\ sq_total_cost >= 400

(***************************************************************************)
(* C8 as stated: for a season with fact rows, get_gameweek_trends returns  *)
(* one entry per gameweek 1, 2, ..., max_gw in order, max_gw being the     *)
(* season's highest gameweek in the fact table, whatever the team filter.  *)
(***************************************************************************)
ObservedMaxGameweek ==
    SetMax({r.gameweek : r \in season_rows(get_season_schema(d_season))})

\* The fact rows of the season that the team filter of the call keeps.
FilteredFacts ==
    {r \in season_rows(get_season_schema(d_season)) :
        d_team_id # 0 => d_players[r.player_id] = d_team_id}

GameweekAxis(data, max_gw) ==
    /\ Len(data) = max_gw
    /\ \A i \in 1..Len(data) :
           /\ data[i].gameweek = i
           /\ data[i].total_points
                  = SumPoints({r \in FilteredFacts : r.gameweek = i})

C8_Original ==
    (d_pc = "done" /\ d_fn = "get_gameweek_trends" /\ ObservedMaxGameweek > 0) =>
        /\ d_result.kind = "returned"
        /\ GameweekAxis(d_result.data, ObservedMaxGameweek)

(***************************************************************************)
(* C8: get_gameweek_trends raises nothing and returns either an empty      *)
(* list, when the team filter resolves to no player (the lookup failed or  *)
(* the team has none) or the trends query fails, or else one entry per     *)
(* gameweek 1, 2, ..., max_gw in order, where max_gw is the season's       *)
(* highest gameweek in the fact table, or 38 when the season has no fact   *)
(* row or the maximum cannot be read; a gameweek without fact rows for the *)
(* filtered players has zero values.                                       *)
(***************************************************************************)
C8_TrendsAxis ==
    (d_pc = "done" /\ d_fn = "get_gameweek_trends") =>
        LET no_players == /\ d_team_id # 0
                          /\ \/ d_q.pids = "fail"
                             \/ \A pid \in PlayerIds : d_players[pid] # d_team_id
            max_gw == IF d_q.max_gw = "fail" \/ ObservedMaxGameweek = 0
                      THEN DefaultMaxGameweek ELSE ObservedMaxGameweek
        IN /\ d_result.kind = "returned"
           /\ IF no_players \/ d_q.main = "fail"
              THEN d_result.data = <<>>
              ELSE GameweekAxis(d_result.data, max_gw)

\* A team's trend over two gameweeks, the first of which has no row for its players.
C8_Witness ==
    /\ d_pc = "done" /\ d_fn = "get_gameweek_trends"
    /\ d_team_id = 1 /\ d_season = "2023-24"
    /\ Len(d_result.data) = 2
    /\ d_result.data[1].total_points = 0
    /\ d_result.data[2].total_points > 0

(***************************************************************************)
(* C9: supports_standings equals supports_teams for every season, both are *)
(* false for 2018-19, and for a season whose schema has supports_standings *)
(* false get_league_standings returns an empty standings list and raises   *)
(* nothing, whatever its queries would have answered.                      *)
(***************************************************************************)
C9_NoStandingsWithoutTeams ==
    /\ \A season \in Seasons :
           get_season_schema(season).supports_standings
               = get_season_schema(season).supports_teams
    /\ ~get_season_schema("2018-19").supports_standings
    /\ (d_pc = "done" /\ d_fn = "get_league_standings"
            /\ ~get_season_schema(d_season).supports_standings) =>
           (d_result.kind = "returned" /\ d_result.data = <<>>)

\* Standings asked for 2018-19 while the tables would have answered with rows.
C9_Witness ==
    /\ d_pc = "done" /\ d_fn = "get_league_standings"
    /\ d_season = "2018-19"
    /\ d_q.main = "rows"

(***************************************************************************)
(* C10: a dashboard service function one of whose queries fails or returns *)
(* no rows raises nothing, and returns an empty or zero-valued result when *)
(* its main query failed.                                                  *)
(***************************************************************************)
C10_ServicesNeverRaise ==
    (d_pc = "done" /\ d_fn # ""
        /\ \E k \in DOMAIN d_q : d_q[k] \in {"fail", "empty"}) =>
        /\ d_result.kind = "returned"
        /\ d_q.main = "fail" => d_result.data = <<>>

\* Runs of the FBref scraper, resumed or fresh, over an empty progress file.
ScraperInit ==
    /\ PipeInit /\ RetryIdle /\ UpsertIdle /\ PredictIdle
    /\ SquadIdle /\ DashIdle /\ ScraperIdle /\ ColdIdle
    /\ RegisterIdle /\ GenIdle /\ CleanIdle /\ StorageIdle
    /\ FetchNewIdle /\ DiscoveryIdle /\ EventsIdle /\ BestIdle
    /\ FixtureIdle /\ FbrefIdle

SpecScraper == ScraperInit /\ [][ScraperNext]_vars

\* The status the progress file holds for a player; a player without an entry
\* counts as pending.
PersistedStatus(state, p) == IF state[p].status = "absent" THEN "pending" ELSE state[p].status

StatusChanges == {<<PersistedStatus(sc_state, p), PersistedStatus(sc_state', p)>> : p \in {q \in ScPlayers : PersistedStatus(sc_state, q) # PersistedStatus(sc_state', q)}}

SeasonIndex(s) == CHOOSE i \in 1..Len(SEASONS) : SEASONS[i] = s

(***************************************************************************)
(* C12: in a resumed run (every write of the progress file having gone     *)
(* through) a player found completed is not scraped, a player found        *)
(* in_progress or failed is not skipped, and for a player scraped again    *)
(* no season recorded as scraped before last_scraped_season is fetched     *)
(* while every configured season after it is.                              *)
(***************************************************************************)
C12_ResumeFromLastSeason ==
    (sc_resume /\ ~sc_lost) =>
        \A p \in ScPlayers :
            /\ p \in sc_attempted => sc_run_state[p].status # "completed"
            /\ p \in sc_skipped => sc_run_state[p].status \notin {"in_progress", "failed"}
            /\ (p \in sc_attempted /\ sc_run_state[p].last_scraped_season # "None") =>
                   LET last == SeasonIndex(sc_run_state[p].last_scraped_season)
                       fetched == SeqRange(seasons_to_fetch(p))
                   IN /\ \A s \in SeqRange(sc_run_state[p].completed_seasons) : SeasonIndex(s) < last => s \notin fetched
                      /\ SeqRange(get_seasons_to_scrape(sc_run_state[p].last_scraped_season)) \subseteq fetched

\* Runs of events_cold_start over the files an earlier run can have left.
ColdInit ==
    /\ ColdCalls /\ RetryIdle /\ UpsertIdle /\ PredictIdle
    /\ SquadIdle /\ DashIdle /\ ScraperIdle /\ RegisterIdle
    /\ GenIdle /\ CleanIdle /\ StorageIdle /\ FetchNewIdle
    /\ DiscoveryIdle /\ EventsIdle /\ BestIdle /\ FixtureIdle
    /\ FbrefIdle

SpecColdStart == ColdInit /\ [][ColdNext]_vars

\* The latest cold-start run has ended otherwise than by an interruption.
ColdEnded == cs_pc = "idle" /\ cs_result \notin {"none", "interrupted"}

ColdUnchanged == ndjson = cs_before.ndjson /\ cs_exists = cs_before.exists /\ state_file = cs_before.state_file

(***************************************************************************)
(* C13 as stated: a cold start that finds the NDJSON target fails with     *)
(* WriteFileError and leaves the file and the cursor as they were.         *)
(***************************************************************************)
C13_Original ==
    (cs_before.exists /\ ColdEnded) => (cs_result = "WriteFileError" /\ ColdUnchanged)

(***************************************************************************)
(* C13: a cold start that finds the NDJSON target never changes the file   *)
(* or the cursor and never succeeds; it ends with WriteFileError when      *)
(* discovery and the fetch of the range succeed, and with the error of     *)
(* the discovery or of the fetch (GameweekDiscoveryError, ValueError on an *)
(* empty list, APIRequestError) otherwise.                                 *)
(***************************************************************************)
C13_TargetExistsNoEffect ==
    cs_before.exists =>
        /\ ColdUnchanged
        /\ cs_pc # "writing"
        /\ ColdEnded => /\ cs_upstream = "ok" => cs_result = "WriteFileError"
                        /\ cs_upstream = "failed" => cs_result \in {"GameweekDiscoveryError", "ValueError", "APIRequestError"}

\* A run found the target, fetched the range and was refused by write_records.
C13_Witness ==
    cs_before.exists /\ ColdEnded /\ cs_upstream = "ok" /\ cs_result = "WriteFileError" /\ Len(cs_data) > 0

(***************************************************************************)
(* C20: a cold-start run writes the cursor at most once, and only after    *)
(* every record of the fetched range is in the NDJSON file; a run that     *)
(* succeeds has written it, to the end of the range; until then, and when  *)
(* the run is interrupted or fails, the cursor keeps its prior value,      *)
(* whatever part of the range the NDJSON file already holds.               *)
(***************************************************************************)
C20_CursorOnceAtEnd ==
    /\ cs_cursor_writes <= 1
    /\ cs_cursor_writes = 1 => (ndjson = cs_data /\ state_file = save_last_event(cs_end) /\ cs_result = "ok")
    /\ cs_cursor_writes = 0 => state_file = cs_before.state_file
    /\ cs_result = "ok" => cs_cursor_writes = 1

\* A run wrote a range of several gameweeks and then the cursor.
C20_Witness ==
    cs_result = "ok" /\ cs_cursor_writes = 1 /\ Len(ndjson) >= 2 /\ state_file # cs_before.state_file

\* A run was interrupted with part of the range in the file and the cursor untouched.
C20_InterruptedPartway ==
    cs_result = "interrupted" /\ 0 < Len(ndjson) /\ Len(ndjson) < Len(cs_data) /\ state_file = cs_before.state_file

\* Concurrent POST /auth/register requests against an empty users table.
RegisterInit ==
    /\ PipeInit /\ RetryIdle /\ UpsertIdle /\ PredictIdle
    /\ SquadIdle /\ DashIdle /\ ScraperIdle /\ ColdIdle
    /\ RegisterCalls /\ GenIdle /\ CleanIdle /\ StorageIdle
    /\ FetchNewIdle /\ DiscoveryIdle /\ EventsIdle /\ BestIdle
    /\ FixtureIdle /\ FbrefIdle

SpecRegister == RegisterInit /\ [][RegisterNext]_vars

(***************************************************************************)
(* C14: whatever the interleaving of registration requests, the users      *)
(* table never holds two rows with the same username or the same email,    *)
(* and a request that does not create its user ends with                   *)
(* UserExistsException (HTTP 400), never with another error.               *)
(***************************************************************************)
C14_CollisionsRejectedAsUserExists ==
    /\ \A i, j \in 1..Len(rg_users) :
          i # j => (rg_users[i].username # rg_users[j].username /\ rg_users[i].email # rg_users[j].email)
    /\ \A r \in Requests : rg_result[r] \in {"none", "created", "UserExistsException"}

\* Calls of generate_predictions over changing statistics and days.
GenInit ==
    /\ PipeInit /\ RetryIdle /\ UpsertIdle /\ PredictIdle
    /\ SquadIdle /\ DashIdle /\ ScraperIdle /\ ColdIdle
    /\ RegisterIdle /\ GenCalls /\ CleanIdle /\ StorageIdle
    /\ FetchNewIdle /\ DiscoveryIdle /\ EventsIdle /\ BestIdle
    /\ FixtureIdle /\ FbrefIdle

SpecGenerate == GenInit /\ [][GenNext]_vars

RowsOf(p, date) == {i \in 1..Len(gp_table) : gp_table[i].player_id = p /\ gp_table[i].prediction_date = date}

CleanInit ==
    /\ PipeInit /\ RetryIdle /\ UpsertIdle /\ PredictIdle
    /\ SquadIdle /\ DashIdle /\ ScraperIdle /\ ColdIdle
    /\ RegisterIdle /\ GenIdle /\ CleanCalls /\ StorageIdle
    /\ FetchNewIdle /\ DiscoveryIdle /\ EventsIdle /\ BestIdle
    /\ FixtureIdle /\ FbrefIdle

SpecClean == CleanInit /\ [][CleanNext]_vars

\* The clean_team_xg_season rows that match a stats row: same season start year,
\* same team name once lowercased and trimmed.
MatchingXg(r) == {x \in cl_xg : str(x.season) = season_start(r.season) /\ lower_strip(x.team_name) = lower_strip(r.team_name)}

FplColumns(r) == <<r.season, r.team_id, r.team_name, r.played, r.wins, r.draws, r.losses, r.gf, r.ga, r.gd, r.pts>>

(***************************************************************************)
(* C16: after the merge, clean_team_season_metrics holds exactly one row   *)
(* per clean_team_season_stats row, with the FPL columns unchanged and the *)
(* xG pair of a matching clean_team_xg_season row, null when none matches; *)
(* a team-season whose team name is missing or empty has no row.           *)
(***************************************************************************)
C16_MergeOneRowPerStatsRow ==
    cl_pc = "done" =>
        /\ \A r \in cl_stats : \E m \in cl_metrics :
              /\ FplColumns(m) = FplColumns(r)
              /\ \A m2 \in cl_metrics : (m2.season = r.season /\ m2.team_id = r.team_id) => m2 = m
              /\ IF MatchingXg(r) = {} THEN m.xg_for = "NULL" /\ m.xg_against = "NULL"
                 ELSE \E x \in MatchingXg(r) : m.xg_for = x.xg_for /\ m.xg_against = x.xg_against
        /\ \A m \in cl_metrics : \E r \in cl_stats : FplColumns(m) = FplColumns(r)
        /\ \A k \in FplKeys : cl_team_map[k] \in {"None", ""} =>
              ~\E m \in cl_metrics : m.season = k[1] /\ m.team_id = k[2]
        /\ \A r \in cl_fpl_rows : cl_team_map[<<r.season, r.team_id>>] \notin {"None", ""} =>
              \E m \in cl_metrics : m.season = r.season /\ m.team_id = r.team_id /\ m.gf = r.gf /\ m.pts = r.pts

\* A merge that matched a differently spelled name, left a team without xG and
\* dropped a team-season without a name.
C16_Witness ==
    /\ cl_pc = "done"
    /\ \E m \in cl_metrics : m.team_name = "Arsenal" /\ m.xg_for = "70.12"
    /\ \E m \in cl_metrics : m.xg_for = "NULL"
    /\ \E r \in cl_fpl_rows : cl_team_map[<<r.season, r.team_id>>] = ""

\* save_player_data and file_exists called, in either order, for one player name.
StorageInit ==
    /\ PipeInit /\ RetryIdle /\ UpsertIdle /\ PredictIdle
    /\ SquadIdle /\ DashIdle /\ ScraperIdle /\ ColdIdle
    /\ RegisterIdle /\ GenIdle /\ CleanIdle /\ StorageCalls
    /\ FetchNewIdle /\ DiscoveryIdle /\ EventsIdle /\ BestIdle
    /\ FixtureIdle /\ FbrefIdle

SpecStorage == StorageInit /\ [][StorageNext]_vars

(***************************************************************************)
(* C17: save_player_data and file_exists compute the same safe name for    *)
(* every player name, made of alphanumerics, hyphens and underscores only; *)
(* once save_player_data has written the file, it is in the directory      *)
(* under the name file_exists looks for.                                   *)
(***************************************************************************)
C17_SameSafeName ==
    /\ save_safe_name(sn_name) = exists_safe_name(sn_name)
    /\ SeqRange(exists_safe_name(sn_name)) \subseteq Alnum \cup {"-", "_"}
    /\ sn_saved = "path" => exists_safe_name(sn_name) \in sn_dir
    /\ (sn_saved = "path" /\ sn_found = "True") => save_safe_name(sn_name) \in sn_dir
    /\ sn_found = "True" => sn_saved = "path"

\* A name with a space to strip and a character to replace was saved and found.
C17_Witness ==
    /\ sn_saved = "path" /\ sn_found = "True"
    /\ Len(sn_name) = MaxNameLen /\ sn_name[1] = " " /\ \E i \in 1..Len(sn_name) : sn_name[i] \in {"/", "."}

\* Calls of fetch_new_events_dataframe, one after the other, from an absent cursor.
FetchNewInit ==
    /\ PipeInit /\ RetryIdle /\ UpsertIdle /\ PredictIdle
    /\ SquadIdle /\ DashIdle /\ ScraperIdle /\ ColdIdle
    /\ RegisterIdle /\ GenIdle /\ CleanIdle /\ StorageIdle
    /\ FetchNewIdle /\ DiscoveryIdle /\ EventsIdle /\ BestIdle
    /\ FixtureIdle /\ FbrefIdle

SpecFetchNew == FetchNewInit /\ [][FetchNewNext]_vars

(***************************************************************************)
(* C19: inside fetch_new_events_dataframe the cursor is the gameweek of    *)
(* the latest completed turn of the loop (the cursor found at the start    *)
(* before the first one); when the fetch of the k-th pending gameweek      *)
(* fails, the cursor is the (k-1)-th pending gameweek, or the cursor found *)
(* at the start if k = 1.                                                  *)
(***************************************************************************)
C19_CursorFollowsFetches ==
    /\ fn_done <= Len(fn_to_fetch)
    /\ state_file = IF fn_done = 0 THEN fn_start ELSE save_last_event(fn_to_fetch[fn_done])
    /\ fn_failed_at # 0 =>
          /\ fn_result = "APIRequestError"
          /\ state_file = IF fn_failed_at = 1 THEN fn_start ELSE save_last_event(fn_to_fetch[fn_failed_at - 1])

\* The fetch of the third pending gameweek failed after two were fetched.
C19_Witness ==
    fn_failed_at = 3 /\ fn_result = "APIRequestError" /\ state_file # fn_start

\* Calls of get_available_gameweeks.
DiscoveryInit ==
    /\ PipeInit /\ RetryIdle /\ UpsertIdle /\ PredictIdle
    /\ SquadIdle /\ DashIdle /\ ScraperIdle /\ ColdIdle
    /\ RegisterIdle /\ GenIdle /\ CleanIdle /\ StorageIdle
    /\ FetchNewIdle /\ DiscoveryCalls /\ EventsIdle /\ BestIdle
    /\ FixtureIdle /\ FbrefIdle

SpecDiscovery == DiscoveryInit /\ [][DiscoveryNext]_vars

\* The ids of the finished or data-checked events of a payload.
FinishedIds(events) == {events[i].id : i \in {j \in 1..Len(events) : events[j].finished \/ events[j].data_checked}}

\* The ascending list of a set of gameweek ids.
Ascending(S) == FilterSeq([i \in 1..MaxGW |-> i], S)

(***************************************************************************)
(* C18: get_available_gameweeks returns the ids of exactly the finished or *)
(* data-checked events, as a list sorted ascending, whatever the order of  *)
(* the payload.                                                            *)
(***************************************************************************)
C18_AvailableSorted ==
    ga_result.kind = "returned" => ga_result.gameweeks = Ascending(FinishedIds(ga_events))


\* The player whose record the step of scrape_player at hand updates.
HandledPlayer == IF sc_pc = "player" THEN sc_cur ELSE IF sc_queue # <<>> THEN Head(sc_queue) ELSE 0

NoDuplicates(s) == \A i, j \in 1..Len(s) : s[i] = s[j] => i = j

PipelineFeed == {l \in AvailableLists : \A i \in 1..Len(l) : l[i] <= MaxPipelineGW}

\* Runs of the two pipeline scripts, one after the other, on an empty system: any
\* number of incremental runs, and one cold start before, between or after them.
PipelineNext ==
    \/ cs_pc = "idle" /\ IncrementalNext(PipelineFeed)
    \/ pc = "idle" /\ (cs_pc = "idle" => cs_upstream = "none") /\ ColdNext

SpecPipeline == Init /\ [][PipelineNext]_vars

(***************************************************************************)
(* C21: an incremental run appends only gameweeks above the cursor it      *)
(* read and absent from the NDJSON file, and after any sequence of cold    *)
(* starts (interrupted ones included) and incremental runs the NDJSON file *)
(* holds at most one record per event_id.                                  *)
(***************************************************************************)
C21_OneRecordPerEvent ==
    /\ [](\A i, j \in 1..Len(ndjson) : ndjson[i] = ndjson[j] => i = j)
    /\ [][(pc = "running" /\ ndjson' # ndjson) =>
              \E gw \in GameweekIds : /\ ndjson' = Append(ndjson, gw)
                                      /\ gw > run_start
                                      /\ gw \notin SeqRange(ndjson)]_vars

\* An incremental run has appended to the file an interrupted cold start left.
C21_Witness ==
    /\ cs_result = "interrupted"
    /\ Len(cs_before.ndjson) < Len(ndjson)
    /\ written # {}
    /\ \E i \in 1..Len(ndjson) : ndjson[i] \notin written


\* Calls of retry_request whose loop is scheduled until the call is over.
SpecRetryFair == RetryInit /\ [][RetryNext]_vars /\ WF_vars(RetryNext)

\* Every invocation of func made so far has raised.
AlwaysFailing == \A i \in 1..Len(rq_trace) : raw_get(rq_trace[i]).kind = "raise"

\* The exception the last invocation raised, as the caller of the call sees it.
LastException ==
    LET exc == raw_get(rq_trace[Len(rq_trace)]).value
    IN IF rq_caller = "safe_get" THEN safe_get_raise(exc) ELSE exc

(***************************************************************************)
(* C22: for every retries >= 1, retry_request on an operation that always  *)
(* fails terminates, having invoked it exactly retries times, slept        *)
(* exactly retries - 1 times (once after each attempt but the last) and    *)
(* raised the exception of the last attempt.                               *)
(***************************************************************************)
C22_AlwaysFailingTerminates ==
    /\ <>(rq_pc = "done")
    /\ []((rq_retries >= 1 /\ AlwaysFailing) =>
             /\ Len(rq_trace) <= rq_retries
             /\ Len(rq_sleeps) = (IF rq_pc = "done" THEN Len(rq_trace) - 1 ELSE Len(rq_trace))
             /\ rq_pc = "done" => /\ Len(rq_trace) = rq_retries
                                  /\ Len(rq_sleeps) = rq_retries - 1
                                  /\ rq_result = [kind |-> "raise", value |-> LastException])

\* retry_request(retries=3) has raised after three failed invocations.
C22_Witness ==
    /\ rq_pc = "done" /\ rq_retries = 3 /\ rq_caller = "direct"
    /\ AlwaysFailing /\ Len(rq_trace) = 3 /\ Len(rq_sleeps) = 2
    /\ rq_result.kind = "raise"


\* Calls of upsert_events on an empty events_raw table.
EventsInit ==
    /\ PipeInit /\ RetryIdle /\ UpsertIdle /\ PredictIdle
    /\ SquadIdle /\ DashIdle /\ ScraperIdle /\ ColdIdle
    /\ RegisterIdle /\ GenIdle /\ CleanIdle /\ StorageIdle
    /\ FetchNewIdle /\ DiscoveryIdle /\ EventsIdle /\ BestIdle
    /\ FixtureIdle /\ FbrefIdle

SpecEvents == EventsInit /\ [][EventsNext]_vars

(***************************************************************************)
(* C23: upsert_events writes every record of a batch that has both keys,   *)
(* skipping the records without event_id or data, and after any sequence   *)
(* of calls events_raw holds exactly one row per upserted event_id, whose  *)
(* payload is the one of the most recent upsert of that event_id.          *)
(***************************************************************************)
C23_OneRowLatestPayload ==
    \A e \in EventIds :
        /\ ue_latest[e] = "none" => ~\E r \in ue_table : r.event_id = e
        /\ ue_latest[e] # "none" => {r \in ue_table : r.event_id = e} = {[event_id |-> e, payload |-> ue_latest[e]]}

\* A batch with a malformed record has replaced the payload of a stored event.
C23_Witness ==
    /\ ue_calls = 2 /\ ue_result = "returned" /\ ue_skipped >= 1
    /\ [event_id |-> 1, payload |-> "b"] \in ue_table
    /\ [event_id |-> 2, payload |-> "a"] \in ue_table


(***************************************************************************)
(* C24: clean_and_store is all-or-nothing for the three clean tables: a    *)
(* run that failed at some step has left none of clean_team_season_stats,  *)
(* clean_team_xg_season and clean_team_season_metrics filled.              *)
(***************************************************************************)
C24_AllOrNothing ==
    cl_pc = "failed" => (cl_stats = {} /\ cl_xg = {} /\ cl_metrics = {})


(***************************************************************************)
(* C27: fetch_new_events_dataframe skips no gameweek silently: once its    *)
(* calls are over, every gameweek at or below the cursor that the function *)
(* fetched has been part of a dataframe it returned.                       *)
(***************************************************************************)
C27_NoGameweekSkipped ==
    fn_pc = "idle" => \A gw \in fn_fetched : gw <= load_last_event => gw \in fn_returned


\* Calls of generate_predictions and get_best_players for two seasons on one day.
BestInit ==
    /\ PipeInit /\ RetryIdle /\ UpsertIdle /\ PredictIdle
    /\ SquadIdle /\ DashIdle /\ ScraperIdle /\ ColdIdle
    /\ RegisterIdle /\ GenIdle /\ CleanIdle /\ StorageIdle
    /\ FetchNewIdle /\ DiscoveryIdle /\ EventsIdle /\ BestCalls
    /\ FixtureIdle /\ FbrefIdle

SpecBest == BestInit /\ [][BestNext]_vars

(***************************************************************************)
(* C28: a call of generate_predictions or get_best_players for one season  *)
(* leaves every row of today that belongs to another season in the table,  *)
(* with its season and its values, so that get_best_players for that other *)
(* season returns the same players as before.                              *)
(***************************************************************************)
C28_OtherSeasonUntouched ==
    [][\A i \in 1..Len(bp_table) :
          bp_table[i].season # bp_season' => \E j \in 1..Len(bp_table') : bp_table'[j] = bp_table[i]]_vars


\* Runs of ingest_fixtures while the season is played, on an empty system.
FixtureInit ==
    /\ PipeInit /\ RetryIdle /\ UpsertIdle /\ PredictIdle
    /\ SquadIdle /\ DashIdle /\ ScraperIdle /\ ColdIdle
    /\ RegisterIdle /\ GenIdle /\ CleanIdle /\ StorageIdle
    /\ FetchNewIdle /\ DiscoveryIdle /\ EventsIdle /\ BestIdle
    /\ FixtureIdle /\ FbrefIdle

SpecFixtures == FixtureInit /\ [][FixtureNext]_vars

\* ingest_fixtures is run again and again, and a run goes on until it ends.
SpecFixturesFair == SpecFixtures /\ WF_vars(IngestNext)

\* The fixture of gw is stored as unfinished and is finished upstream.
StoredStale(gw) ==
    /\ fx_upstream[gw]
    /\ \E i \in 1..Len(fx_csv) : fx_csv[i].event = gw /\ ~fx_csv[i].finished

\* The fixture of gw is stored as finished, in the CSV or in the table.
StoredFinished(gw) ==
    \/ \E i \in 1..Len(fx_csv) : fx_csv[i].event = gw /\ fx_csv[i].finished
    \/ fx_table[gw] = "finished"

(***************************************************************************)
(* C29: a fixture that ingest_fixtures stored while it was unfinished and  *)
(* that has finished upstream since is eventually stored as finished: a    *)
(* later run fetches its gameweek again and updates the CSV or the table.  *)
(***************************************************************************)
C29_EventuallyFinished ==
    \A gw \in FixtureGWs : StoredStale(gw) ~> StoredFinished(gw)


\* Runs of the FBref scraper for one player, on an empty state file.
FbrefInit ==
    /\ PipeInit /\ RetryIdle /\ UpsertIdle /\ PredictIdle
    /\ SquadIdle /\ DashIdle /\ ScraperIdle /\ ColdIdle
    /\ RegisterIdle /\ GenIdle /\ CleanIdle /\ StorageIdle
    /\ FetchNewIdle /\ DiscoveryIdle /\ EventsIdle /\ BestIdle
    /\ FixtureIdle /\ FbrefIdle

SpecFbref == FbrefInit /\ [][FbrefNext]_vars

(***************************************************************************)
(* C26: a player marked completed for whom at least one season gave data   *)
(* has a CSV, and that CSV holds the rows of every season scraped with     *)
(* data for the player, the seasons of an earlier interrupted run          *)
(* included.                                                               *)
(***************************************************************************)
C26_CompletedHasAllSeasons ==
    (fb_state.completed /\ fb_scraped # {}) =>
        (fb_csv.exists /\ fb_scraped \subseteq fb_csv.seasons)

====
